---- MODULE Spec2Model ----
(***************************************************************************)
(* StockMon.                                                               *)
(*                                                                         *)
(* The client's notification tracking and deduplication                    *)
(* (client/notified.py): the persisted store notified.json is modelled as  *)
(* a text of JSON tokens; the tracker keeps the decoded mapping in memory. *)
(* Time is the wall clock time.time(), in whole seconds.                   *)
(*                                                                         *)
(* The API (app/models.py, app/main.py, app/services/stock.py): the        *)
(* validation of a request and the evaluation of its tickers against what  *)
(* the price source answers, the API key check (app/auth.py) and the       *)
(* market hours.                                                           *)
(*                                                                         *)
(* The client's main program (client/main.py): configuration, the call of  *)
(* the API with its retry loop, and what a run prints.                     *)
(***************************************************************************)
EXTENDS Integers, Sequences, FiniteSets, TLC

VARIABLES
    now,            \* time.time()
    file,           \* client/notified.json
    silence_hours,  \* NotificationTracker.silence_hours
    _data,          \* NotificationTracker._data
    call,           \* the last call made on the tracker, and what it returned
    pre,            \* _data and file as they were when that call was made,
                    \* and what the disk does to the save of that call
    lastMark,       \* the last mark_notified call made on this tracker
    saved,          \* the dictionary the store holds from a completed save
    failures,       \* the number of saves the disk has failed
    peer,           \* _data of a second NotificationTracker, built over the
                    \* same store by another process
    pc,             \* where a run of the documented usage stands
    pending,        \* the surviving alerts that run has still to send
    sent,           \* per alert, the times of its last two notifications
    http_request,   \* the request line and the X-API-Key header of a request
    server_environ, \* os.environ of the API: API_KEY
    request_body,   \* the JSON body of a POST /check-alerts
    provider,       \* per ticker, what yfinance's history() does in this cycle
    price_source,   \* per ticker, what get_24h_range answers in this cycle
    response,       \* the response to that POST
    lookups,        \* the tickers get_24h_range was called with, in order
    successful_fetches,  \* check_alerts: successful_fetches at the return
    checked_at,     \* check_alerts: the datetime handed to is_market_open
    market_open,    \* what is_market_open returned for it
    argv,           \* the command line of the client: sys.argv[1:]
    config_file,    \* client/config.json
    environ,        \* os.environ: API_KEY and API_URL
    network,        \* what the attempts of requests.post meet
    run,            \* the run of main(): exit code and output
    emails          \* the messages handed to the SMTP server

trackerVars ==
    <<now, file, silence_hours, _data, call, pre, lastMark, saved, failures, peer>>
usageVars == <<pc, pending, sent>>
apiVars ==
    <<http_request, server_environ, request_body, provider, price_source, response,
      lookups, successful_fetches, checked_at, market_open>>
clientVars == <<argv, config_file, environ, network, run, emails>>
vars == <<trackerVars, usageVars, apiVars, clientVars>>

(***************************************************************************)
(* Bounds of the model.                                                    *)
(***************************************************************************)
\* the clock advances in steps of one hour, MaxTicks times at most
MaxTicks == 2
\* silence_hours ranges over 0..MaxSilenceHours
MaxSilenceHours == 1
\* alert lists passed to filter_alerts have at most MaxAlerts elements
MaxAlerts == 3
\* the disk fails at most MaxDiskFailures saves
MaxDiskFailures == 1
\* prices range over 0..MaxPrice, thresholds over 1..MaxPrice
MaxPrice == 2

\* AlertRequest.validate_max_tickers: len(value) > 20
MaxTickersPerRequest == 20

\* silence_seconds = silence_hours * 3600
SecondsPerHour == 3600
TickSeconds == SecondsPerHour
MaxTime == MaxTicks * TickSeconds

SilenceHoursSet == 0..MaxSilenceHours

\* an alert dictionary, reduced to the two keys the tracker reads
Alert(ticker, alert_type) == [ticker |-> ticker, type |-> alert_type]
Alerts == {Alert("AAPL", "buy"), Alert("AAPL", "sell"), Alert("MSFT", "buy")}
\* the alert lists of a response: at most one alert per (ticker, type)
AlertLists ==
    {l \in UNION {[1..n -> Alerts] : n \in 0..MaxAlerts} :
        \A i, j \in DOMAIN l : l[i] = l[j] => i = j}

(***************************************************************************)
(* Python dictionaries as functions.                                       *)
(***************************************************************************)
EmptyDict == [k \in {} |-> 0]

DictSet(d, key, value) ==
    [k \in (DOMAIN d) \cup {key} |-> IF k = key THEN value ELSE d[k]]

(***************************************************************************)
(* The JSON text of notified.json: a sequence of tokens.                   *)
(***************************************************************************)
Tok(t, key, value) == [t |-> t, key |-> key, value |-> value]
LBrace == Tok("{", "", <<>>)
RBrace == Tok("}", "", <<>>)
Space == Tok(" ", "", <<>>)
Junk == Tok("invalid json", "", <<>>)
LBracket == Tok("[", "", <<>>)
RBracket == Tok("]", "", <<>>)
\* a member of an object whose value is a JSON string: "key": "text"
TextItem(key) == Tok("text", key, <<>>)

(***************************************************************************)
(* Python objects.  A Dict[str, float] is a function from its keys to its  *)
(* numbers; any other object is the record of its class and its value (the *)
(* value of a dict being the function from its keys to such records).      *)
(***************************************************************************)
Object(class, value) == [class |-> class, value |-> value]
\* isinstance(d, dict) with every value a number
IsTimestamps(d) == "class" \notin DOMAIN d

RECURSIVE Digits(_)
\* the decimal digits of a number, as json.dump writes it
Digits(n) == IF n < 10 THEN <<n>> ELSE Digits(n \div 10) \o <<n % 10>>

\* a member of an object whose value is a number: "key": n
NumberItem(key, n) == Tok("item", key, Digits(n))

RECURSIVE Number(_)
\* the number a digit string denotes, as json.loads reads it
Number(ds) ==
    IF Len(ds) = 0 THEN 0
    ELSE 10 * Number(SubSeq(ds, 1, Len(ds) - 1)) + ds[Len(ds)]

RECURSIVE SetToSeq(_)
SetToSeq(S) ==
    IF S = {} THEN <<>>
    ELSE LET x == CHOOSE y \in S : TRUE IN <<x>> \o SetToSeq(S \ {x})

RECURSIVE DumpItems(_, _)
DumpItems(d, keys) ==
    IF keys = <<>> THEN <<>>
    ELSE <<Tok("item", Head(keys), Digits(d[Head(keys)]))>>
             \o DumpItems(d, Tail(keys))

RECURSIVE DumpObjects(_, _)
\* the members of a dict whose values are not all numbers
DumpObjects(items, keys) ==
    IF keys = <<>> THEN <<>>
    ELSE LET v == items[Head(keys)] IN
         <<IF v.class = "float" THEN NumberItem(Head(keys), v.value)
           ELSE TextItem(Head(keys))>>
             \o DumpObjects(items, Tail(keys))

\* json.dump(data, notified_file, indent=2)
json_dump(d) ==
    IF IsTimestamps(d)
    THEN <<LBrace>> \o DumpItems(d, SetToSeq(DOMAIN d)) \o <<RBrace>>
    ELSE <<LBrace>> \o DumpObjects(d.value, SetToSeq(DOMAIN d.value)) \o <<RBrace>>

RECURSIVE LoadItems(_, _)
LoadItems(items, acc) ==
    IF items = <<>> THEN acc
    ELSE LoadItems(Tail(items),
                   DictSet(acc, Head(items).key, Number(Head(items).value)))

RECURSIVE LoadObjects(_, _)
LoadObjects(items, acc) ==
    IF items = <<>> THEN acc
    ELSE LoadObjects(Tail(items),
                     DictSet(acc, Head(items).key,
                             IF Head(items).t = "item"
                             THEN Object("float", Number(Head(items).value))
                             ELSE Object("str", "text")))

\* json.loads(content): ok = FALSE stands for json.JSONDecodeError.  The
\* document may be an object of numbers, an object with a string among its
\* values, or an array.
json_loads(text) ==
    LET n == Len(text)
        isObject == /\ n >= 2
                    /\ text[1] = LBrace
                    /\ text[n] = RBrace
                    /\ \A i \in 2..(n - 1) : text[i].t \in {"item", "text"}
        numbers == \A i \in 2..(n - 1) : text[i].t = "item"
    IN  IF isObject /\ numbers
        THEN [ok |-> TRUE, value |-> LoadItems(SubSeq(text, 2, n - 1), EmptyDict)]
        ELSE IF isObject
        THEN [ok |-> TRUE,
              value |-> Object("dict", LoadObjects(SubSeq(text, 2, n - 1), EmptyDict))]
        ELSE IF text = <<LBracket, RBracket>>
        THEN [ok |-> TRUE, value |-> Object("list", <<>>)]
        ELSE [ok |-> FALSE, value |-> EmptyDict]

RECURSIVE strip(_)
\* str.strip(): leading and trailing whitespace removed
strip(text) ==
    IF text = <<>> THEN text
    ELSE IF Head(text) = Space THEN strip(Tail(text))
    ELSE IF text[Len(text)] = Space THEN strip(SubSeq(text, 1, Len(text) - 1))
    ELSE text

(***************************************************************************)
(* client/notified.py, the module-level functions.                         *)
(***************************************************************************)
get_notification_key(ticker, alert_type) == ticker \o ":" \o alert_type

\* load_notified_data without its except clauses: the decode error escapes
load_notified_data_uncaught(f) ==
    IF ~f.exists
    THEN [data |-> EmptyDict, warning |-> FALSE, raised |-> FALSE]
    ELSE LET content == strip(f.content) IN
         IF content = <<>>
         THEN [data |-> EmptyDict, warning |-> FALSE, raised |-> FALSE]
         ELSE LET r == json_loads(content) IN
              IF r.ok
              THEN [data |-> r.value, warning |-> FALSE, raised |-> FALSE]
              ELSE [data |-> EmptyDict, warning |-> FALSE, raised |-> TRUE]

\* returns the dictionary, whether a warning was printed and whether the
\* call raised
load_notified_data(f) ==
    IF ~f.exists
    THEN [data |-> EmptyDict, warning |-> FALSE, raised |-> FALSE]
    ELSE LET content == strip(f.content) IN
         IF content = <<>>
         THEN [data |-> EmptyDict, warning |-> FALSE, raised |-> FALSE]
         ELSE LET r == json_loads(content) IN
              IF r.ok
              THEN [data |-> r.value, warning |-> FALSE, raised |-> FALSE]
              ELSE [data |-> EmptyDict, warning |-> TRUE, raised |-> FALSE]

\* What the disk does to one save: the write goes through, open() fails and
\* the file is left as it was, or the file is truncated by open() and the
\* write stops after the first `kept` tokens (a proper prefix of the text).
DiskOk == [kind |-> "ok", kept |-> 0]
DiskFailures ==
    {[kind |-> "open_fails", kept |-> 0], [kind |-> "write_fails", kept |-> 1]}

\* save_notified_data opening the file with mode "a": the text is appended
save_notified_data_appends(f, d, disk) ==
    CASE disk.kind = "ok" ->
             [file |-> [exists |-> TRUE, content |-> f.content \o json_dump(d)],
              raised |-> FALSE]
      [] disk.kind = "open_fails" ->
             [file |-> f, raised |-> TRUE]
      [] disk.kind = "write_fails" ->
             [file |-> [exists |-> TRUE,
                        content |-> f.content \o SubSeq(json_dump(d), 1, disk.kept)],
              raised |-> TRUE]

\* save_notified_data catching the OSError of open() or write() and returning
save_notified_data_swallows(f, d, disk) ==
    CASE disk.kind = "ok" ->
             [file |-> [exists |-> TRUE, content |-> json_dump(d)], raised |-> FALSE]
      [] disk.kind = "open_fails" ->
             [file |-> f, raised |-> FALSE]
      [] disk.kind = "write_fails" ->
             [file |-> [exists |-> TRUE,
                        content |-> SubSeq(json_dump(d), 1, disk.kept)],
              raised |-> FALSE]

\* save_notified_data reading the store and writing it back with the entries
\* of d added to those it holds
save_notified_data_merges(f, d, disk) ==
    LET held == load_notified_data(f).data
        merged == [k \in DOMAIN held \cup DOMAIN d |->
                      IF k \in DOMAIN d THEN d[k] ELSE held[k]]
    IN  CASE disk.kind = "ok" ->
                 [file |-> [exists |-> TRUE, content |-> json_dump(merged)],
                  raised |-> FALSE]
          [] disk.kind = "open_fails" ->
                 [file |-> f, raised |-> TRUE]
          [] disk.kind = "write_fails" ->
                 [file |-> [exists |-> TRUE,
                            content |-> SubSeq(json_dump(merged), 1, disk.kept)],
                  raised |-> TRUE]

\* returns the file after the call and whether the call raised
save_notified_data(f, d, disk) ==
    CASE disk.kind = "ok" ->
             [file |-> [exists |-> TRUE, content |-> json_dump(d)], raised |-> FALSE]
      [] disk.kind = "open_fails" ->
             [file |-> f, raised |-> TRUE]
      [] disk.kind = "write_fails" ->
             [file |-> [exists |-> TRUE,
                        content |-> SubSeq(json_dump(d), 1, disk.kept)],
              raised |-> TRUE]

\* clean_old_entries with its comparison turned round: it keeps the old
\* entries and drops the recent ones
clean_old_entries_reversed(d, hours, current_time) ==
    LET silence_seconds == hours * SecondsPerHour IN
    [key \in {k \in DOMAIN d : (current_time - d[k]) >= silence_seconds} |-> d[key]]

\* clean_old_entries keeping the entries whose age equals the window
clean_old_entries_inclusive(d, hours, current_time) ==
    LET silence_seconds == hours * SecondsPerHour IN
    [key \in {k \in DOMAIN d : (current_time - d[k]) <= silence_seconds} |-> d[key]]

clean_old_entries(d, hours, current_time) ==
    LET silence_seconds == hours * SecondsPerHour IN
    [key \in {k \in DOMAIN d : (current_time - d[k]) < silence_seconds} |-> d[key]]

RECURSIVE FilterLoopInclusive(_, _, _, _, _, _)
\* the loop skipping an alert whose age equals the window
FilterLoopInclusive(alerts, notified_data, silence_seconds, current_time, i, filtered_alerts) ==
    IF i > Len(alerts) THEN filtered_alerts
    ELSE LET alert == alerts[i]
             key == get_notification_key(alert.ticker, alert.type)
             skip == /\ key \in DOMAIN notified_data
                     /\ (current_time - notified_data[key]) <= silence_seconds
         IN  FilterLoopInclusive(alerts, notified_data, silence_seconds, current_time,
                                 i + 1,
                                 IF skip THEN filtered_alerts
                                 ELSE Append(filtered_alerts, alert))

RECURSIVE FilterLoopReversed(_, _, _, _, _, _)
\* the loop with the comparison turned round
FilterLoopReversed(alerts, notified_data, silence_seconds, current_time, i, filtered_alerts) ==
    IF i > Len(alerts) THEN filtered_alerts
    ELSE LET alert == alerts[i]
             key == get_notification_key(alert.ticker, alert.type)
             skip == /\ key \in DOMAIN notified_data
                     /\ (current_time - notified_data[key]) > silence_seconds
         IN  FilterLoopReversed(alerts, notified_data, silence_seconds, current_time,
                                i + 1,
                                IF skip THEN filtered_alerts
                                ELSE Append(filtered_alerts, alert))

RECURSIVE FilterLoopPrepends(_, _, _, _, _, _)
\* the loop inserting each surviving alert at the front of the list
FilterLoopPrepends(alerts, notified_data, silence_seconds, current_time, i, filtered_alerts) ==
    IF i > Len(alerts) THEN filtered_alerts
    ELSE LET alert == alerts[i]
             key == get_notification_key(alert.ticker, alert.type)
             skip == /\ key \in DOMAIN notified_data
                     /\ (current_time - notified_data[key]) < silence_seconds
         IN  FilterLoopPrepends(alerts, notified_data, silence_seconds, current_time,
                                i + 1,
                                IF skip THEN filtered_alerts
                                ELSE <<alert>> \o filtered_alerts)

RECURSIVE FilterLoopIgnoresAge(_, _, _, _, _, _)
\* the loop of filter_already_notified skipping every alert whose key is in
\* the state, however old its timestamp
FilterLoopIgnoresAge(alerts, notified_data, silence_seconds, current_time, i, filtered_alerts) ==
    IF i > Len(alerts) THEN filtered_alerts
    ELSE LET alert == alerts[i]
             key == get_notification_key(alert.ticker, alert.type)
             skip == key \in DOMAIN notified_data
         IN  FilterLoopIgnoresAge(alerts, notified_data, silence_seconds, current_time,
                                  i + 1,
                                  IF skip THEN filtered_alerts
                                  ELSE Append(filtered_alerts, alert))

RECURSIVE FilterLoop(_, _, _, _, _, _)
\* the for loop of filter_already_notified, from alert number i on
FilterLoop(alerts, notified_data, silence_seconds, current_time, i, filtered_alerts) ==
    IF i > Len(alerts) THEN filtered_alerts
    ELSE LET alert == alerts[i]
             key == get_notification_key(alert.ticker, alert.type)
             skip == /\ key \in DOMAIN notified_data
                     /\ (current_time - notified_data[key]) < silence_seconds
         IN  FilterLoop(alerts, notified_data, silence_seconds, current_time, i + 1,
                        IF skip THEN filtered_alerts
                        ELSE Append(filtered_alerts, alert))

RECURSIVE MarkAll(_, _, _)
MarkAll(d, alerts, current_time) ==
    IF alerts = <<>> THEN d
    ELSE MarkAll(DictSet(d, get_notification_key(Head(alerts).ticker, Head(alerts).type),
                         current_time),
                 Tail(alerts), current_time)

\* filter_already_notified recording each alert it lets through
filter_already_notified_marks(alerts, notified_data, hours, current_time) ==
    LET kept == FilterLoop(alerts, notified_data, hours * SecondsPerHour,
                           current_time, 1, <<>>)
    IN  [filtered_alerts |-> kept,
         alerts |-> alerts,
         notified_data |-> MarkAll(notified_data, kept, current_time)]

\* filter_already_notified deleting the expired entries from the dictionary
filter_already_notified_prunes(alerts, notified_data, hours, current_time) ==
    [filtered_alerts |-> FilterLoop(alerts, notified_data, hours * SecondsPerHour,
                                    current_time, 1, <<>>),
     alerts |-> alerts,
     notified_data |->
         [key \in {k \in DOMAIN notified_data :
                      (current_time - notified_data[k]) < hours * SecondsPerHour}
             |-> notified_data[key]]]

\* returns the list it builds, and the two objects it was handed (by
\* reference) as they are when it returns
filter_already_notified(alerts, notified_data, hours, current_time) ==
    [filtered_alerts |-> FilterLoop(alerts, notified_data, hours * SecondsPerHour,
                                    current_time, 1, <<>>),
     alerts |-> alerts,
     notified_data |-> notified_data]

(***************************************************************************)
(* The API: app/models.py and POST /check-alerts (app/main.py).  Prices    *)
(* and thresholds are whole numbers; an Optional value is None or a        *)
(* one-element tuple holding the value.                                    *)
(***************************************************************************)
None == <<>>
Some(value) == <<value>>

\* a call returns a value or raises an exception
NoException == "None"
Returned(value) == [raised |-> NoException, value |-> value]
Raised(exception) == [raised |-> exception, value |-> <<>>]

\* the values a threshold of a request body takes: absent, zero, positive
RawThresholds == {None} \cup {Some(v) : v \in 0..MaxPrice}

\* one entry of the JSON object of a request body
Entry(ticker, buy, sell) ==
    [ticker |-> ticker, thresholds |-> [buy |-> buy, sell |-> sell]]

\* a JSON object: its keys are distinct
SmallBodies ==
    {<<>>}
    \cup {<<Entry("AAPL", b, s)>> : b \in RawThresholds, s \in RawThresholds}
    \cup {<<Entry("AAPL", b1, s1), Entry("MSFT", b2, s2)>> :
            b1 \in RawThresholds, s1 \in RawThresholds,
            b2 \in RawThresholds, s2 \in RawThresholds}

\* a body of n tickers T1 .. Tn, all with the same thresholds
UniformBody(n, buy, sell) ==
    [i \in 1..n |-> Entry("T" \o ToString(i), buy, sell)]

LargeBodies ==
    {UniformBody(n, b, s) :
        n \in (MaxTickersPerRequest - 1)..(MaxTickersPerRequest + 2),
        b \in RawThresholds, s \in RawThresholds}

TickersOf(body) == {body[i].ticker : i \in DOMAIN body}

\* ThresholdDict.validate_positive: ok = FALSE stands for ValueError
validate_positive(value) ==
    IF value # None /\ value[1] <= 0
    THEN [ok |-> FALSE, value |-> value]
    ELSE [ok |-> TRUE, value |-> value]

\* the model ThresholdDict built from one entry of the body
ThresholdDict(buy, sell) ==
    [ok |-> validate_positive(buy).ok /\ validate_positive(sell).ok,
     value |-> [buy |-> buy, sell |-> sell]]

\* AlertRequest.validate_max_tickers refusing a request of 20 tickers
validate_max_tickers_strict(value) ==
    IF Len(value) >= MaxTickersPerRequest
    THEN [ok |-> FALSE, value |-> value]
    ELSE [ok |-> TRUE, value |-> value]

\* AlertRequest.validate_max_tickers: ok = FALSE stands for ValueError
validate_max_tickers(value) ==
    IF Len(value) > MaxTickersPerRequest
    THEN [ok |-> FALSE, value |-> value]
    ELSE [ok |-> TRUE, value |-> value]

\* the model AlertRequest built from the body: every ThresholdDict is
\* validated, then the dictionary; ok = FALSE is the ValidationError that
\* the framework answers with status 422
AlertRequest(body) ==
    LET entries == \A i \in DOMAIN body :
                       ThresholdDict(body[i].thresholds.buy,
                                     body[i].thresholds.sell).ok
    IN  [ok |-> entries /\ validate_max_tickers(body).ok, root |-> body]

\* models.Alert: ok = FALSE stands for the ValidationError of
\* Alert.validate_positive on threshold, reached or current
models_Alert(ticker, type, threshold, reached, current) ==
    [ok |-> threshold > 0 /\ reached > 0 /\ current > 0,
     value |-> [ticker |-> ticker, type |-> type, threshold |-> threshold,
                reached |-> reached, current |-> current]]

\* models.ErrorDetail; error is the prefix of the message
ErrorDetail(ticker, error) == [ticker |-> ticker, error |-> error]

(***************************************************************************)
(* app/auth.py.  A key is a text of characters; the blank is Space.        *)
(***************************************************************************)
Char(c) == Tok(c, "", <<>>)
SecretKey == <<Char("k")>>
OtherKey == <<Char("x")>>
\* a character outside ASCII, as a header may carry (Latin-1)
NonAscii == Char("U+00E9")
isascii(text) == \A i \in DOMAIN text : text[i] # NonAscii

\* what os.getenv("API_KEY") returns on the server
ApiKeySettings ==
    {None, Some(<<>>), Some(<<Space>>), Some(SecretKey), Some(<<Space>> \o SecretKey),
     Some(<<NonAscii>>)}

\* the X-API-Key header of a request: absent, or its text
HeaderValues ==
    {None, Some(<<>>), Some(<<Space>>), Some(SecretKey),
     Some(<<Space>> \o SecretKey \o <<Space>>), Some(OtherKey),
     Some(SecretKey \o OtherKey), Some(<<NonAscii>>)}

\* get_api_key_from_env: the stripped key, or ValueError
get_api_key_from_env(env) ==
    LET api_key == env.API_KEY IN
    IF api_key = None \/ api_key[1] = <<>> \/ strip(api_key[1]) = <<>>
    THEN Raised("ValueError")
    ELSE Returned(strip(api_key[1]))

HTTPException(status_code, detail) ==
    [raised |-> "HTTPException",
     value |-> [status_code |-> status_code, detail |-> detail]]

\* secrets.compare_digest on two str: whether they are equal, or TypeError
\* when one of them holds a character outside ASCII
compare_digest(a, b) ==
    IF ~isascii(a) \/ ~isascii(b) THEN Raised("TypeError") ELSE Returned(a = b)

\* require_api_key: the validated key, or the exception it raises
require_api_key(x_api_key, env) ==
    LET expected == get_api_key_from_env(env) IN
    IF expected.raised # NoException THEN HTTPException(500, "API_KEY not set")
    ELSE IF x_api_key = None THEN HTTPException(401, "Missing API key")
    ELSE LET provided_key == strip(x_api_key[1])
             equal == compare_digest(provided_key, expected.value)
         IN  IF provided_key = <<>> THEN HTTPException(401, "Invalid API key")
             ELSE IF equal.raised # NoException THEN Raised(equal.raised)
             ELSE IF ~equal.value THEN HTTPException(401, "Invalid API key")
             ELSE Returned(provided_key)

\* the request line and the header of a request
HttpRequest(endpoint, x_api_key) == [endpoint |-> endpoint, x_api_key |-> x_api_key]

(***************************************************************************)
(* services/stock.py: what get_24h_range answers for one ticker.           *)
(***************************************************************************)
PriceRange(min_price, max_price, current_price) ==
    [kind |-> "ok", min_price |-> min_price, max_price |-> max_price,
     current_price |-> current_price]
LookupFailure(kind) ==
    [kind |-> kind, min_price |-> 0, max_price |-> 0, current_price |-> 0]

FailureKinds ==
    {"InvalidTickerError", "MarketClosedError", "StockDataTimeoutError", "Exception"}

\* the three numbers come from the provider's rows and are not checked for
\* their sign; Low.min() is at most High.max()
Outcomes ==
    {PriceRange(lo, hi, last) :
        lo \in 0..MaxPrice, hi \in 0..MaxPrice, last \in 0..MaxPrice}
    \cup {LookupFailure(k) : k \in FailureKinds}

Lookups == {o \in Outcomes : o.min_price <= o.max_price}

\* the time the docstring and the messages of get_24h_range give a lookup
LookupBudget == 10

\* one row of the frame history() returns; NaN is None
Row(low, high, close) == [Low |-> low, High |-> high, Close |-> close]
RowValues == {None} \cup {Some(v) : v \in 0..MaxPrice}
Rows ==
    {Row(lo, hi, c) : lo \in RowValues, hi \in RowValues, c \in RowValues}
NumericRows ==
    {r \in Rows : r.Low # None /\ r.High # None /\ r.Close # None}
\* within an hour the low is at most the high
HourRows ==
    {r \in Rows : (r.Low # None /\ r.High # None) => r.Low[1] <= r.High[1]}

required_columns == {"Low", "High", "Close"}

\* what stock.history(period="1d", interval="1h") does: it returns a frame
\* (its columns and its rows) or raises, after so many seconds
History(raised, seconds, columns, rows) ==
    [raised |-> raised, seconds |-> seconds, columns |-> columns, rows |-> rows]
Frame(seconds, columns, rows) == History(NoException, seconds, columns, rows)

Durations == {1, LookupBudget + 1}
ColumnSets == {required_columns, {"Low", "High"}, {}}
Frames ==
    {Frame(s, required_columns, <<>>) : s \in Durations}
    \cup {Frame(s, c, <<r>>) : s \in Durations, c \in ColumnSets, r \in HourRows}
    \cup {Frame(s, required_columns, <<r1, r2>>) :
             s \in Durations, r1 \in HourRows, r2 \in HourRows}
Histories ==
    Frames
    \cup {History(e, s, {}, <<>>) : e \in {"TimeoutError", "Exception"}, s \in Durations}

\* hist[["Low", "High", "Close"]].isna().all().all()
AllNull(rows) ==
    \A i \in DOMAIN rows :
        rows[i].Low = None /\ rows[i].High = None /\ rows[i].Close = None

\* hist.dropna(subset=["Low", "High", "Close"])
dropna(rows) ==
    SelectSeq(rows, LAMBDA r : r.Low # None /\ r.High # None /\ r.Close # None)

ColumnMin(rows, col) ==
    CHOOSE v \in {rows[i][col][1] : i \in DOMAIN rows} :
        \A i \in DOMAIN rows : v <= rows[i][col][1]
ColumnMax(rows, col) ==
    CHOOSE v \in {rows[i][col][1] : i \in DOMAIN rows} :
        \A i \in DOMAIN rows : v >= rows[i][col][1]

\* get_24h_range reporting a frame of nulls as an invalid ticker
get_24h_range_null_is_invalid(hist) ==
    IF hist.raised = "TimeoutError" THEN LookupFailure("StockDataTimeoutError")
    ELSE IF hist.raised # NoException THEN LookupFailure("Exception")
    ELSE IF hist.rows = <<>> \/ hist.columns = {}
    THEN LookupFailure("InvalidTickerError")
    ELSE IF required_columns \ hist.columns # {}
    THEN LookupFailure("InvalidTickerError")
    ELSE IF AllNull(hist.rows) THEN LookupFailure("InvalidTickerError")
    ELSE LET hist_clean == dropna(hist.rows) IN
         IF hist_clean = <<>> THEN LookupFailure("MarketClosedError")
         ELSE PriceRange(ColumnMin(hist_clean, "Low"),
                         ColumnMax(hist_clean, "High"),
                         hist_clean[Len(hist_clean)].Close[1])

\* get_24h_range: the three prices, or the exception it raises.  The time
\* the call of history() took is not looked at.
get_24h_range(hist) ==
    IF hist.raised = "TimeoutError" THEN LookupFailure("StockDataTimeoutError")
    ELSE IF hist.raised # NoException THEN LookupFailure("Exception")
    ELSE IF hist.rows = <<>> \/ hist.columns = {}
    THEN LookupFailure("InvalidTickerError")
    ELSE IF required_columns \ hist.columns # {}
    THEN LookupFailure("InvalidTickerError")
    ELSE IF AllNull(hist.rows) THEN LookupFailure("MarketClosedError")
    ELSE LET hist_clean == dropna(hist.rows) IN
         IF hist_clean = <<>> THEN LookupFailure("MarketClosedError")
         ELSE PriceRange(ColumnMin(hist_clean, "Low"),
                         ColumnMax(hist_clean, "High"),
                         hist_clean[Len(hist_clean)].Close[1])

(***************************************************************************)
(* app/main.py: check_alerts.                                              *)
(***************************************************************************)
\* a timezone-aware datetime: the day of the week (Monday is 0) and the
\* time of day on its own clock, the offset of that clock from UTC in
\* minutes, and whether US/Eastern is on daylight time at that instant
datetime(weekday, hour, minute, utcoffset, dst) ==
    [weekday |-> weekday, hour |-> hour, minute |-> minute,
     utcoffset |-> utcoffset, dst |-> dst]

MinutesPerDay == 24 * 60
MinutesPerWeek == 7 * MinutesPerDay
EasternOffset(dst) == IF dst THEN -(4 * 60) ELSE -(5 * 60)

\* check_time.astimezone(eastern): the same instant on the Eastern clock
astimezone(check_time) ==
    LET local == check_time.weekday * MinutesPerDay
                 + check_time.hour * 60 + check_time.minute
        utc == local - check_time.utcoffset
        et == (utc + EasternOffset(check_time.dst)) % MinutesPerWeek
    IN  datetime(et \div MinutesPerDay, (et % MinutesPerDay) \div 60, et % 60,
                 EasternOffset(check_time.dst), check_time.dst)

\* the datetimes is_market_open is tried on
CheckTimes ==
    {datetime(d, h, m, o, dst) :
        d \in 0..6, h \in 0..23, m \in {0, 29, 30, 59},
        o \in {0, -(5 * 60), -(4 * 60), 60}, dst \in BOOLEAN}

\* is_market_open treating 16:00 as open
is_market_open_closes_late(check_time) ==
    LET et_time == astimezone(check_time)
        weekday == et_time.weekday
        hour == et_time.hour
        minute == et_time.minute
    IN  IF weekday > 4 THEN FALSE
        ELSE IF hour < 9 \/ (hour = 9 /\ minute < 30) THEN FALSE
        ELSE IF hour > 16 \/ (hour = 16 /\ minute > 0) THEN FALSE
        ELSE TRUE

\* is_market_open
is_market_open(check_time) ==
    LET et_time == astimezone(check_time)
        weekday == et_time.weekday
        hour == et_time.hour
        minute == et_time.minute
    IN  IF weekday > 4 THEN FALSE
        ELSE IF hour < 9 \/ (hour = 9 /\ minute < 30) THEN FALSE
        ELSE IF hour >= 16 THEN FALSE
        ELSE TRUE

\* the prefix the except clause of a failure kind puts before str(e)
ErrorPrefix(kind) ==
    CASE kind = "InvalidTickerError" -> "Invalid ticker"
      [] kind = "MarketClosedError" -> "Market closed"
      [] kind = "StockDataTimeoutError" -> "Timeout"
      [] OTHER -> "Unexpected error"

\* the locals of check_alerts before the loop; lookups lists the calls of
\* get_24h_range, raised tells that an exception is leaving the function
NoLocals ==
    [alerts |-> <<>>, errors |-> <<>>, successful_fetches |-> 0, lookups |-> <<>>,
     raised |-> FALSE]

\* the body of the for loop with a bare `pass` in its last except clause
ProcessTickerPasses(ticker_symbol, thresholds, outcome, st) ==
    LET looked == [st EXCEPT !.lookups = Append(@, ticker_symbol)] IN
    IF outcome.kind = "Exception" THEN looked
    ELSE IF outcome.kind # "ok"
    THEN [looked EXCEPT !.errors =
             Append(@, ErrorDetail(ticker_symbol, ErrorPrefix(outcome.kind)))]
    ELSE LET min_price == outcome.min_price
             max_price == outcome.max_price
             current_price == outcome.current_price
             fetched == [looked EXCEPT !.successful_fetches = @ + 1]
             buy_due == thresholds.buy # None /\ min_price <= thresholds.buy[1]
             buy_alert == models_Alert(ticker_symbol, "buy", thresholds.buy[1],
                                       min_price, current_price)
             sell_due == thresholds.sell # None /\ max_price >= thresholds.sell[1]
             sell_alert == models_Alert(ticker_symbol, "sell", thresholds.sell[1],
                                        max_price, current_price)
         IN  IF buy_due /\ ~buy_alert.ok THEN fetched
             ELSE LET bought == IF buy_due
                                THEN [fetched EXCEPT !.alerts = Append(@, buy_alert.value)]
                                ELSE fetched
                  IN  IF sell_due /\ ~sell_alert.ok THEN bought
                      ELSE IF sell_due
                      THEN [bought EXCEPT !.alerts = Append(@, sell_alert.value)]
                      ELSE bought

\* the body of the for loop without its last except clause: an exception
\* that is none of the three classified kinds leaves check_alerts
ProcessTickerNoCatchAll(ticker_symbol, thresholds, outcome, st) ==
    LET looked == [st EXCEPT !.lookups = Append(@, ticker_symbol)] IN
    IF outcome.kind = "Exception" THEN [looked EXCEPT !.raised = TRUE]
    ELSE IF outcome.kind # "ok"
    THEN [looked EXCEPT !.errors =
             Append(@, ErrorDetail(ticker_symbol, ErrorPrefix(outcome.kind)))]
    ELSE LET min_price == outcome.min_price
             max_price == outcome.max_price
             current_price == outcome.current_price
             fetched == [looked EXCEPT !.successful_fetches = @ + 1]
             buy_due == thresholds.buy # None /\ min_price <= thresholds.buy[1]
             buy_alert == models_Alert(ticker_symbol, "buy", thresholds.buy[1],
                                       min_price, current_price)
             sell_due == thresholds.sell # None /\ max_price >= thresholds.sell[1]
             sell_alert == models_Alert(ticker_symbol, "sell", thresholds.sell[1],
                                        max_price, current_price)
         IN  IF buy_due /\ ~buy_alert.ok THEN [fetched EXCEPT !.raised = TRUE]
             ELSE LET bought == IF buy_due
                                THEN [fetched EXCEPT !.alerts = Append(@, buy_alert.value)]
                                ELSE fetched
                  IN  IF sell_due /\ ~sell_alert.ok
                      THEN [bought EXCEPT !.raised = TRUE]
                      ELSE IF sell_due
                      THEN [bought EXCEPT !.alerts = Append(@, sell_alert.value)]
                      ELSE bought

\* the body of the for loop appending buy_alert in the sell branch as well
ProcessTickerAppendsBuyTwice(ticker_symbol, thresholds, outcome, st) ==
    LET looked == [st EXCEPT !.lookups = Append(@, ticker_symbol)]
        unexpected == ErrorDetail(ticker_symbol, ErrorPrefix("Exception"))
    IN
    IF outcome.kind # "ok"
    THEN [looked EXCEPT !.errors =
             Append(@, ErrorDetail(ticker_symbol, ErrorPrefix(outcome.kind)))]
    ELSE LET min_price == outcome.min_price
             max_price == outcome.max_price
             current_price == outcome.current_price
             fetched == [looked EXCEPT !.successful_fetches = @ + 1]
             buy_due == thresholds.buy # None /\ min_price <= thresholds.buy[1]
             buy_alert == models_Alert(ticker_symbol, "buy", thresholds.buy[1],
                                       min_price, current_price)
             sell_due == thresholds.sell # None /\ max_price >= thresholds.sell[1]
             sell_alert == models_Alert(ticker_symbol, "sell", thresholds.sell[1],
                                        max_price, current_price)
         IN  IF buy_due /\ ~buy_alert.ok
             THEN [fetched EXCEPT !.errors = Append(@, unexpected)]
             ELSE LET bought == IF buy_due
                                THEN [fetched EXCEPT !.alerts = Append(@, buy_alert.value)]
                                ELSE fetched
                  IN  IF sell_due /\ (~sell_alert.ok \/ ~buy_due)
                      THEN [bought EXCEPT !.errors = Append(@, unexpected)]
                      ELSE IF sell_due
                      THEN [bought EXCEPT !.alerts = Append(@, buy_alert.value)]
                      ELSE bought

\* the body of the for loop counting the fetch after the alerts are built
\* instead of right after the lookup
ProcessTickerCountsLate(ticker_symbol, thresholds, outcome, st) ==
    LET looked == [st EXCEPT !.lookups = Append(@, ticker_symbol)]
        unexpected == ErrorDetail(ticker_symbol, ErrorPrefix("Exception"))
    IN
    IF outcome.kind # "ok"
    THEN [looked EXCEPT !.errors =
             Append(@, ErrorDetail(ticker_symbol, ErrorPrefix(outcome.kind)))]
    ELSE LET min_price == outcome.min_price
             max_price == outcome.max_price
             current_price == outcome.current_price
             buy_due == thresholds.buy # None /\ min_price <= thresholds.buy[1]
             buy_alert == models_Alert(ticker_symbol, "buy", thresholds.buy[1],
                                       min_price, current_price)
             sell_due == thresholds.sell # None /\ max_price >= thresholds.sell[1]
             sell_alert == models_Alert(ticker_symbol, "sell", thresholds.sell[1],
                                        max_price, current_price)
         IN  IF buy_due /\ ~buy_alert.ok
             THEN [looked EXCEPT !.errors = Append(@, unexpected)]
             ELSE LET bought == IF buy_due
                                THEN [looked EXCEPT !.alerts = Append(@, buy_alert.value)]
                                ELSE looked
                  IN  IF sell_due /\ ~sell_alert.ok
                      THEN [bought EXCEPT !.errors = Append(@, unexpected)]
                      ELSE IF sell_due
                      THEN [bought EXCEPT !.alerts = Append(@, sell_alert.value),
                                          !.successful_fetches = @ + 1]
                      ELSE [bought EXCEPT !.successful_fetches = @ + 1]

\* the body of the for loop putting each new alert and each new error at the
\* front of its list
ProcessTickerPrepends(ticker_symbol, thresholds, outcome, st) ==
    LET looked == [st EXCEPT !.lookups = Append(@, ticker_symbol)]
        unexpected == ErrorDetail(ticker_symbol, ErrorPrefix("Exception"))
    IN
    IF outcome.kind # "ok"
    THEN [looked EXCEPT !.errors =
             <<ErrorDetail(ticker_symbol, ErrorPrefix(outcome.kind))>> \o @]
    ELSE LET min_price == outcome.min_price
             max_price == outcome.max_price
             current_price == outcome.current_price
             fetched == [looked EXCEPT !.successful_fetches = @ + 1]
             buy_due == thresholds.buy # None /\ min_price <= thresholds.buy[1]
             buy_alert == models_Alert(ticker_symbol, "buy", thresholds.buy[1],
                                       min_price, current_price)
             sell_due == thresholds.sell # None /\ max_price >= thresholds.sell[1]
             sell_alert == models_Alert(ticker_symbol, "sell", thresholds.sell[1],
                                        max_price, current_price)
         IN  IF buy_due /\ ~buy_alert.ok
             THEN [fetched EXCEPT !.errors = <<unexpected>> \o @]
             ELSE LET bought == IF buy_due
                                THEN [fetched EXCEPT !.alerts = <<buy_alert.value>> \o @]
                                ELSE fetched
                  IN  IF sell_due /\ ~sell_alert.ok
                      THEN [bought EXCEPT !.errors = <<unexpected>> \o @]
                      ELSE IF sell_due
                      THEN [bought EXCEPT !.alerts = <<sell_alert.value>> \o @]
                      ELSE bought

\* the body of the for loop for one item of request.root: the lookup, the
\* two threshold checks, and the except clauses.  An Alert that fails its
\* validation raises inside the try block and is caught by the last clause.
ProcessTicker(ticker_symbol, thresholds, outcome, st) ==
    LET looked == [st EXCEPT !.lookups = Append(@, ticker_symbol)]
        unexpected == ErrorDetail(ticker_symbol, ErrorPrefix("Exception"))
    IN
    IF outcome.kind # "ok"
    THEN [looked EXCEPT !.errors =
             Append(@, ErrorDetail(ticker_symbol, ErrorPrefix(outcome.kind)))]
    ELSE LET min_price == outcome.min_price
             max_price == outcome.max_price
             current_price == outcome.current_price
             fetched == [looked EXCEPT !.successful_fetches = @ + 1]
             buy_due == thresholds.buy # None /\ min_price <= thresholds.buy[1]
             buy_alert == models_Alert(ticker_symbol, "buy", thresholds.buy[1],
                                       min_price, current_price)
             sell_due == thresholds.sell # None /\ max_price >= thresholds.sell[1]
             sell_alert == models_Alert(ticker_symbol, "sell", thresholds.sell[1],
                                        max_price, current_price)
         IN  IF buy_due /\ ~buy_alert.ok
             THEN [fetched EXCEPT !.errors = Append(@, unexpected)]
             ELSE LET bought == IF buy_due
                                THEN [fetched EXCEPT !.alerts = Append(@, buy_alert.value)]
                                ELSE fetched
                  IN  IF sell_due /\ ~sell_alert.ok
                      THEN [bought EXCEPT !.errors = Append(@, unexpected)]
                      ELSE IF sell_due
                      THEN [bought EXCEPT !.alerts = Append(@, sell_alert.value)]
                      ELSE bought

RECURSIVE CheckLoopBreaks(_, _, _, _)
\* the for loop leaving at the first ticker that records an error
CheckLoopBreaks(root, lookup, i, st) ==
    IF i > Len(root) \/ st.raised THEN st
    ELSE LET after == ProcessTicker(root[i].ticker, root[i].thresholds,
                                    lookup[root[i].ticker], st)
         IN  IF Len(after.errors) > Len(st.errors) THEN after
             ELSE CheckLoopBreaks(root, lookup, i + 1, after)

RECURSIVE CheckLoop(_, _, _, _)
\* the for loop over request.root.items(), from item number i on; an
\* exception that no except clause catches ends it
CheckLoop(root, lookup, i, st) ==
    IF i > Len(root) \/ st.raised THEN st
    ELSE CheckLoop(root, lookup, i + 1,
                   ProcessTicker(root[i].ticker, root[i].thresholds,
                                 lookup[root[i].ticker], st))

\* check_alerts: the locals at the return statement
check_alerts(root, lookup) ==
    LET total_tickers == Len(root)
        st == CheckLoop(root, lookup, 1, NoLocals)
    IN  [alerts |-> st.alerts,
         errors |-> st.errors,
         successful_fetches |-> st.successful_fetches,
         lookups |-> st.lookups,
         raised |-> st.raised,
         service_degraded |->
             /\ total_tickers > 0
             /\ st.successful_fetches = 0
             /\ Len(st.errors) = total_tickers]

\* no response yet
NoResponse ==
    [status |-> 0, alerts |-> <<>>, errors |-> <<>>, service_degraded |-> FALSE]

(***************************************************************************)
(* The client: client/main.py.  config.json is what load_config finds, the *)
(* environment holds API_KEY and API_URL, the network is what each attempt *)
(* of requests.post meets and the JSON body a 200 response carries.        *)
(***************************************************************************)
\* max_attempts = 2
MaxAttempts == 2

RequiredKeys == {"api_url", "silence_hours", "tickers"}

ConfigFile(exists, valid_json, keys, tickers_is_dict, tickers) ==
    [exists |-> exists, valid_json |-> valid_json, keys |-> keys,
     tickers_is_dict |-> tickers_is_dict, tickers |-> tickers]

ConfigTickers ==
    {<<Entry("AAPL", Some(1), Some(2))>>,
     <<Entry("AAPL", Some(1), None), Entry("MSFT", None, Some(2))>>}

ConfigFiles ==
    {ConfigFile(FALSE, FALSE, {}, FALSE, <<>>),
     ConfigFile(TRUE, FALSE, {}, FALSE, <<>>),
     ConfigFile(TRUE, TRUE, {"api_url", "tickers"}, TRUE, <<>>),
     ConfigFile(TRUE, TRUE, RequiredKeys, FALSE, <<>>)}
    \cup {ConfigFile(TRUE, TRUE, RequiredKeys, TRUE, t) : t \in ConfigTickers}

\* load_config: the configuration, or the exception it raises
load_config(cf) ==
    IF ~cf.exists THEN Raised("FileNotFoundError")
    ELSE IF ~cf.valid_json THEN Raised("JSONDecodeError")
    ELSE IF RequiredKeys \ cf.keys # {} THEN Raised("KeyError")
    ELSE IF ~cf.tickers_is_dict THEN Raised("TypeError")
    ELSE Returned([api_url |-> "config", tickers |-> cf.tickers])

\* get_api_url: the environment variable API_URL, when set and not empty,
\* goes before the api_url of the configuration
get_api_url(config, env) ==
    IF env.API_URL # "" THEN env.API_URL ELSE config.api_url

\* what one attempt of requests.post meets: a response with a status code
\* (or with none), or an exception of requests
\* The status codes are those of HTTP, 100..599: "200" stands for a code
\* below 400, "404" for a 4xx other than 401, "500" for a 5xx.
AttemptOutcomes ==
    {"200", "401", "404", "500", "NoStatus",
     "Timeout", "ConnectionError", "RequestException"}

RECURSIVE AttemptLoopRetriesClientErrors(_, _, _)
\* the while loop of call_api retrying after any status >= 400 but 401
AttemptLoopRetriesClientErrors(net, attempt, last_exception) ==
    IF attempt >= MaxAttempts
    THEN [raised |-> IF last_exception # NoException THEN last_exception
                     ELSE "RuntimeError",
          value |-> <<>>, attempts |-> attempt, after_loop |-> TRUE]
    ELSE LET n == attempt + 1
             outcome == net.outcomes[n]
             raise(e) == [raised |-> e, value |-> <<>>, attempts |-> n,
                          after_loop |-> FALSE]
         IN  CASE outcome = "NoStatus" -> raise("RuntimeError")
               [] outcome = "401" -> raise("HTTPError")
               [] outcome \in {"500", "404"} ->
                      IF n < MaxAttempts
                      THEN AttemptLoopRetriesClientErrors(net, n, last_exception)
                      ELSE raise("HTTPError")
               [] outcome = "200" ->
                      [raised |-> NoException, value |-> net.body, attempts |-> n,
                       after_loop |-> FALSE]
               [] outcome \in {"Timeout", "ConnectionError"} ->
                      IF n >= MaxAttempts THEN raise(outcome)
                      ELSE AttemptLoopRetriesClientErrors(net, n, outcome)
               [] outcome = "RequestException" -> raise("RequestException")

RECURSIVE AttemptLoopSwallowsLast(_, _, _)
\* the while loop of call_api with no `raise` in the except clauses of
\* Timeout and ConnectionError: the last failure falls out of the loop
AttemptLoopSwallowsLast(net, attempt, last_exception) ==
    IF attempt >= MaxAttempts
    THEN [raised |-> IF last_exception # NoException THEN last_exception
                     ELSE "RuntimeError",
          value |-> <<>>, attempts |-> attempt, after_loop |-> TRUE]
    ELSE LET n == attempt + 1
             outcome == net.outcomes[n]
             raise(e) == [raised |-> e, value |-> <<>>, attempts |-> n,
                          after_loop |-> FALSE]
         IN  CASE outcome = "NoStatus" -> raise("RuntimeError")
               [] outcome = "401" -> raise("HTTPError")
               [] outcome = "500" ->
                      IF n < MaxAttempts
                      THEN AttemptLoopSwallowsLast(net, n, last_exception)
                      ELSE raise("HTTPError")
               [] outcome = "404" -> raise("HTTPError")
               [] outcome = "200" ->
                      [raised |-> NoException, value |-> net.body, attempts |-> n,
                       after_loop |-> FALSE]
               [] outcome \in {"Timeout", "ConnectionError"} ->
                      AttemptLoopSwallowsLast(net, n, outcome)
               [] outcome = "RequestException" -> raise("RequestException")

RECURSIVE AttemptLoop(_, _, _)
\* the while loop of call_api after `attempt` attempts; body is what
\* response.json() returns.  The result also counts the requests sent.
AttemptLoop(net, attempt, last_exception) ==
    IF attempt >= MaxAttempts
    THEN \* the code after the loop
         [raised |-> IF last_exception # NoException THEN last_exception
                     ELSE "RuntimeError",
          value |-> <<>>, attempts |-> attempt, after_loop |-> TRUE]
    ELSE LET n == attempt + 1
             outcome == net.outcomes[n]
             raise(e) == [raised |-> e, value |-> <<>>, attempts |-> n,
                          after_loop |-> FALSE]
         IN  CASE outcome = "NoStatus" -> raise("RuntimeError")
               [] outcome = "401" -> raise("HTTPError")
               [] outcome = "500" ->
                      IF n < MaxAttempts THEN AttemptLoop(net, n, last_exception)
                      ELSE raise("HTTPError")
               [] outcome = "404" -> raise("HTTPError")
               [] outcome = "200" ->
                      [raised |-> NoException, value |-> net.body, attempts |-> n,
                       after_loop |-> FALSE]
               [] outcome \in {"Timeout", "ConnectionError"} ->
                      IF n >= MaxAttempts THEN raise(outcome)
                      ELSE AttemptLoop(net, n, outcome)
               [] outcome = "RequestException" -> raise("RequestException")

\* call_api looking for API_KEY only after the first request has failed
call_api_checks_key_late(config, env, net) ==
    LET first == AttemptLoop(net, MaxAttempts - 1, NoException) IN
    IF first.raised = NoException THEN first
    ELSE IF env.API_KEY = None \/ env.API_KEY[1] = ""
    THEN [raised |-> "ValueError", value |-> <<>>, attempts |-> first.attempts,
          after_loop |-> FALSE]
    ELSE AttemptLoop(net, 0, NoException)

\* call_api: the parsed body of the response, or the exception it raises;
\* `not api_key` holds for a variable that is not set and for an empty one
call_api(config, env, net) ==
    IF env.API_KEY = None \/ env.API_KEY[1] = ""
    THEN [raised |-> "ValueError", value |-> <<>>, attempts |-> 0,
          after_loop |-> FALSE]
    ELSE AttemptLoop(net, 0, NoException)

\* the JSON bodies of a 200 response: the keys main reads are there or not
ApiBody(wellformed, api_alerts, api_errors) ==
    [wellformed |-> wellformed, alerts |-> api_alerts, errors |-> api_errors]

ApiBodies ==
    {ApiBody(TRUE, <<>>, <<>>),
     ApiBody(TRUE, <<models_Alert("AAPL", "buy", 1, 1, 2).value>>, <<>>),
     ApiBody(TRUE, <<models_Alert("AAPL", "buy", 1, 1, 2).value,
                    models_Alert("AAPL", "sell", 2, 2, 2).value>>,
             <<ErrorDetail("MSFT", "Invalid ticker")>>),
     ApiBody(FALSE, <<>>, <<>>)}

\* the lines main prints for the alerts and the errors of a response
AlertLines(api_alerts) ==
    IF api_alerts = <<>> THEN <<[line |-> "No alerts triggered."]>>
    ELSE <<[line |-> "Alerts"]>>
         \o [i \in DOMAIN api_alerts |->
                [line |-> "alert", ticker |-> api_alerts[i].ticker,
                 type |-> api_alerts[i].type]]
ErrorLines(api_errors) ==
    IF api_errors = <<>> THEN <<>>
    ELSE <<[line |-> "Errors"]>>
         \o [i \in DOMAIN api_errors |->
                [line |-> "error", ticker |-> api_errors[i].ticker]]

\* the except clause of main that catches an exception
ExceptClause(exception) ==
    CASE exception = "FileNotFoundError" -> "FileNotFoundError"
      [] exception = "JSONDecodeError" -> "json.JSONDecodeError"
      [] exception = "KeyError" -> "KeyError"
      [] exception = "ValueError" -> "ValueError"
      [] exception = "HTTPError" -> "HTTPError"
      [] exception = "Timeout" -> "Timeout"
      [] exception = "ConnectionError" -> "ConnectionError"
      [] exception = "RequestException" -> "RequestException"
      [] OTHER -> "Exception"

\* the command lines: no argument, --dry-run, --help, an option the parser
\* does not know
CommandLines == {<<>>, <<"--dry-run">>, <<"--help">>, <<"--invalid-flag">>}

\* sys.exit(status): the exception SystemExit, which is not an Exception
SystemExit(status) == [raised |-> "SystemExit", value |-> <<>>, status |-> status]
UsageError == 2

\* parse_arguments accepting any command line: what it does not know is
\* skipped
parse_arguments_lenient(args) ==
    [raised |-> NoException,
     value |-> [dry_run |-> \E i \in DOMAIN args : args[i] = "--dry-run"],
     status |-> 0]

\* parse_arguments: argparse prints the help and exits with status 0 for
\* --help, prints the usage and exits with status 2 for an argument it does
\* not know, and returns the namespace otherwise
parse_arguments(args) ==
    IF \E i \in DOMAIN args : args[i] = "--help" THEN SystemExit(0)
    ELSE IF \E i \in DOMAIN args : args[i] # "--dry-run" THEN SystemExit(UsageError)
    ELSE [raised |-> NoException,
          value |-> [dry_run |-> \E i \in DOMAIN args : args[i] = "--dry-run"],
          status |-> 0]

\* main(): the exit code, what it printed on stdout and on stderr, the
\* number of requests it sent, the exception its except clauses caught and
\* the exception that left it (escaped; exit_code is then the status the
\* process ends with)
main(args, cf, env, net) ==
    LET parsed == parse_arguments(args)
        dry_run == parsed.value.dry_run
        loaded == load_config(cf)
        config == loaded.value
        mode == [line |-> "Mode", dry_run |-> dry_run]
        head == <<[line |-> "StockMon Client Configuration:"],
                  [line |-> "API URL", url |-> get_api_url(config, env)],
                  mode,
                  [line |-> "Configured Tickers:"]>>
        failed(e, out, n) ==
            [exit_code |-> 1, stdout |-> out, stderr |-> <<ExceptClause(e)>>,
             attempts |-> n, exception |-> e, escaped |-> NoException,
             dry_run |-> dry_run]
    IN  IF parsed.raised # NoException
        THEN [exit_code |-> parsed.status,
              stdout |-> IF parsed.status = 0 THEN <<[line |-> "usage"]>> ELSE <<>>,
              stderr |-> IF parsed.status = 0 THEN <<>> ELSE <<"usage">>,
              attempts |-> 0, exception |-> NoException, escaped |-> parsed.raised,
              dry_run |-> FALSE]
        ELSE IF loaded.raised # NoException THEN failed(loaded.raised, <<>>, 0)
        ELSE LET called == call_api(config, env, net)
                 calling == Append(head, [line |-> "Calling StockMon API..."])
             IN  IF called.raised # NoException
                 THEN failed(called.raised, calling, called.attempts)
                 ELSE IF ~called.value.wellformed
                 THEN failed("KeyError", calling, called.attempts)
                 ELSE [exit_code |-> 0,
                       stdout |-> calling
                                  \o <<[line |-> "API Response received"]>>
                                  \o AlertLines(called.value.alerts)
                                  \o ErrorLines(called.value.errors),
                       stderr |-> <<>>,
                       attempts |-> called.attempts,
                       exception |-> NoException,
                       escaped |-> NoException,
                       dry_run |-> dry_run]

\* main() has not run
NotRun ==
    [done |-> FALSE, dry_run |-> FALSE, exit_code |-> 0, stdout |-> <<>>,
     stderr |-> <<>>, attempts |-> 0, exception |-> NoException,
     escaped |-> NoException,
     store_before |-> [exists |-> FALSE, content |-> <<>>]]

(***************************************************************************)
(* The state.  call describes the last call made on the tracker; pre is    *)
(* the tracker's dictionary and the store as they were when it was made.   *)
(***************************************************************************)
NoAlert == Alert("", "")
NoMark == [alert |-> NoAlert, time |-> -1]
NotSaved == [done |-> FALSE, data |-> EmptyDict]

NoPrev == [repeat |-> FALSE, time |-> -1, result |-> <<>>]

\* op and its arguments (alert, alerts), the time of the call, what it
\* returned (result) or whether it raised, whether it printed a warning, the
\* argument list as the call left it (alerts_after) and, for a filter_alerts
\* that repeats the call before it on the same list, that call's result
Call(op, time, alert, alerts, alerts_after, result, raised, warning, prev) ==
    [op |-> op, time |-> time, alert |-> alert, alerts |-> alerts,
     alerts_after |-> alerts_after, result |-> result, raised |-> raised,
     warning |-> warning, prev |-> prev]

InitialFiles ==
    {[exists |-> FALSE, content |-> <<>>],
     [exists |-> TRUE, content |-> <<>>],
     [exists |-> TRUE, content |-> <<Space>>],
     [exists |-> TRUE, content |-> <<LBrace, Junk>>],
     [exists |-> TRUE, content |-> <<LBrace, RBrace>>]}

\* what the store holds from a completed save once save_notified_data(f, d,
\* disk) is over: d, what it held before when open() failed, nothing when the
\* write failed on the truncated file
Stored(before, d, disk) ==
    CASE disk.kind = "ok" -> [done |-> TRUE, data |-> d]
      [] disk.kind = "open_fails" -> before
      [] disk.kind = "write_fails" -> NotSaved

(***************************************************************************)
(* The statements of the tracker on a state that is not a Dict[str, float] *)
(* (load_notified_data returns whatever json.loads decoded).               *)
(***************************************************************************)
\* the entries of a dict that are numbers
Timestamps(obj) ==
    [k \in {key \in DOMAIN obj.value : obj.value[key].class = "float"}
        |-> obj.value[k].value]

\* the dict of the given items: a Dict[str, float] when they are all numbers
Dict(items) ==
    IF \A k \in DOMAIN items : items[k].class = "float"
    THEN Timestamps(Object("dict", items))
    ELSE Object("dict", items)

\* filter_already_notified: "key in notified_data" is False on a list
\* without elements; on a dict, "current_time - last_notified" raises
\* TypeError when the value under the key of an alert is not a number
filter_object(alerts, obj, hours, current_time) ==
    IF /\ obj.class = "dict"
       /\ \E i \in DOMAIN alerts :
             LET key == get_notification_key(alerts[i].ticker, alerts[i].type) IN
             key \in DOMAIN obj.value /\ obj.value[key].class # "float"
    THEN Raised("TypeError")
    ELSE IF obj.class = "dict"
    THEN Returned(FilterLoop(alerts, Timestamps(obj), hours * SecondsPerHour,
                             current_time, 1, <<>>))
    ELSE Returned(alerts)

\* mark_notified: "self._data[key] = time.time()" raises TypeError on a list
mark_object(obj, key, current_time) ==
    IF obj.class = "dict"
    THEN Returned(Dict(DictSet(obj.value, key, Object("float", current_time))))
    ELSE Raised("TypeError")

\* clean_old_entries: "data.items()" raises AttributeError on a list; on a
\* dict, "current_time - timestamp" raises TypeError at a value that is not
\* a number
clean_object(obj, hours, current_time) ==
    IF obj.class # "dict" THEN Raised("AttributeError")
    ELSE IF \E k \in DOMAIN obj.value : obj.value[k].class # "float"
    THEN Raised("TypeError")
    ELSE Returned(clean_old_entries(Timestamps(obj), hours, current_time))

\* time passes between two calls
Tick ==
    /\ now < MaxTime
    /\ now' = now + TickSeconds
    /\ UNCHANGED <<peer, file, silence_hours, _data, call, pre, lastMark, saved, failures>>

\* NotificationTracker.__init__: the next run of the client builds a new
\* tracker over the same store
NewTracker(hours) ==
    LET r == load_notified_data(file) IN
    /\ silence_hours' = hours
    /\ _data' = r.data
    /\ call' = Call("init", now, NoAlert, <<>>, <<>>, <<>>, r.raised, r.warning, NoPrev)
    /\ pre' = [data |-> EmptyDict, file |-> file, disk |-> DiskOk]
    /\ lastMark' = NoMark
    /\ UNCHANGED <<peer, now, file, saved, failures>>

\* mark_notified without its call of save_notified_data
MarkNotifiedNoSave(ticker, alert_type, disk) ==
    LET key == get_notification_key(ticker, alert_type)
        d == DictSet(_data, key, now)
    IN  /\ _data' = d
        /\ call' = Call("mark_notified", now, Alert(ticker, alert_type),
                        <<>>, <<>>, <<>>, FALSE, FALSE, NoPrev)
        /\ pre' = [data |-> _data, file |-> file, disk |-> disk]
        /\ lastMark' = [alert |-> Alert(ticker, alert_type), time |-> now]
        /\ UNCHANGED <<peer, now, file, silence_hours, saved, failures>>

\* mark_notified saving before it sets the timestamp
MarkNotifiedSavesFirst(ticker, alert_type, disk) ==
    LET key == get_notification_key(ticker, alert_type)
        d == DictSet(_data, key, now)
        s == save_notified_data(file, _data, disk)
    IN  /\ _data' = d
        /\ file' = s.file
        /\ call' = Call("mark_notified", now, Alert(ticker, alert_type),
                        <<>>, <<>>, <<>>, s.raised, FALSE, NoPrev)
        /\ pre' = [data |-> _data, file |-> file, disk |-> disk]
        /\ lastMark' = [alert |-> Alert(ticker, alert_type), time |-> now]
        /\ saved' = Stored(saved, _data, disk)
        /\ failures' = IF s.raised THEN failures + 1 ELSE failures
        /\ UNCHANGED <<peer, now, silence_hours>>

\* mark_notified stamping every entry of the state with the current time
MarkNotifiedTouchesAll(ticker, alert_type, disk) ==
    LET key == get_notification_key(ticker, alert_type)
        d == [k \in DOMAIN _data \cup {key} |-> now]
        s == save_notified_data(file, d, disk)
    IN  /\ _data' = d
        /\ file' = s.file
        /\ call' = Call("mark_notified", now, Alert(ticker, alert_type),
                        <<>>, <<>>, <<>>, s.raised, FALSE, NoPrev)
        /\ pre' = [data |-> _data, file |-> file, disk |-> disk]
        /\ lastMark' = [alert |-> Alert(ticker, alert_type), time |-> now]
        /\ saved' = Stored(saved, d, disk)
        /\ failures' = IF s.raised THEN failures + 1 ELSE failures
        /\ UNCHANGED <<peer, now, silence_hours>>

\* mark_notified restoring the state it had when its save raises
MarkNotifiedRollsBack(ticker, alert_type, disk) ==
    LET key == get_notification_key(ticker, alert_type)
        d == DictSet(_data, key, now)
        s == save_notified_data(file, d, disk)
    IN  /\ _data' = IF s.raised THEN _data ELSE d
        /\ file' = s.file
        /\ call' = Call("mark_notified", now, Alert(ticker, alert_type),
                        <<>>, <<>>, <<>>, s.raised, FALSE, NoPrev)
        /\ pre' = [data |-> _data, file |-> file, disk |-> disk]
        /\ lastMark' = [alert |-> Alert(ticker, alert_type), time |-> now]
        /\ saved' = Stored(saved, d, disk)
        /\ failures' = IF s.raised THEN failures + 1 ELSE failures
        /\ UNCHANGED <<peer, now, silence_hours>>

\* NotificationTracker.mark_notified
MarkNotified(ticker, alert_type, disk) ==
    LET key == get_notification_key(ticker, alert_type)
        m == IF IsTimestamps(_data) THEN Returned(DictSet(_data, key, now))
             ELSE mark_object(_data, key, now)
        d == m.value
        s == save_notified_data(file, d, disk)
    IN  IF m.raised # NoException
        THEN /\ call' = Call("mark_notified", now, Alert(ticker, alert_type),
                             <<>>, <<>>, <<>>, TRUE, FALSE, NoPrev)
             /\ pre' = [data |-> _data, file |-> file, disk |-> disk]
             /\ UNCHANGED <<peer, now, file, silence_hours, _data, lastMark, saved, failures>>
        ELSE /\ _data' = d
             /\ file' = s.file
             /\ call' = Call("mark_notified", now, Alert(ticker, alert_type),
                             <<>>, <<>>, <<>>, s.raised, FALSE, NoPrev)
             /\ pre' = [data |-> _data, file |-> file, disk |-> disk]
             /\ lastMark' = [alert |-> Alert(ticker, alert_type), time |-> now]
             /\ saved' = Stored(saved, d, disk)
             /\ failures' = IF s.raised THEN failures + 1 ELSE failures
             /\ UNCHANGED <<peer, now, silence_hours>>

\* NotificationTracker.filter_alerts
FilterAlerts(alerts) ==
    LET r == filter_already_notified(alerts, _data, silence_hours, now)
        o == filter_object(alerts, _data, silence_hours, now)
        prev == IF call.op = "filter_alerts" /\ call.alerts = alerts
                THEN [repeat |-> TRUE, time |-> call.time, result |-> call.result]
                ELSE NoPrev
    IN
    /\ IF IsTimestamps(_data)
       THEN /\ _data' = r.notified_data
            /\ call' = Call("filter_alerts", now, NoAlert, alerts, r.alerts,
                            r.filtered_alerts, FALSE, FALSE, prev)
       ELSE /\ _data' = _data
            /\ call' = Call("filter_alerts", now, NoAlert, alerts, alerts,
                            o.value, o.raised # NoException, FALSE, prev)
    /\ pre' = [data |-> _data, file |-> file, disk |-> DiskOk]
    /\ UNCHANGED <<peer, now, file, silence_hours, lastMark, saved, failures>>

\* NotificationTracker.cleanup
Cleanup(disk) ==
    LET c == IF IsTimestamps(_data)
             THEN Returned(clean_old_entries(_data, silence_hours, now))
             ELSE clean_object(_data, silence_hours, now)
        d == c.value
        s == save_notified_data(file, d, disk)
    IN  IF c.raised # NoException
        THEN /\ call' = Call("cleanup", now, NoAlert, <<>>, <<>>, <<>>, TRUE, FALSE,
                             NoPrev)
             /\ pre' = [data |-> _data, file |-> file, disk |-> disk]
             /\ UNCHANGED <<peer, now, file, silence_hours, _data, lastMark, saved, failures>>
        ELSE /\ _data' = d
             /\ file' = s.file
             /\ call' = Call("cleanup", now, NoAlert, <<>>, <<>>, <<>>, s.raised, FALSE,
                             NoPrev)
             /\ pre' = [data |-> _data, file |-> file, disk |-> disk]
             /\ saved' = Stored(saved, d, disk)
             /\ failures' = IF s.raised THEN failures + 1 ELSE failures
             /\ UNCHANGED <<peer, now, silence_hours, lastMark>>

NoSends == [a \in Alerts |-> <<>>]

\* no request has reached the API
ApiIdle ==
    /\ http_request = HttpRequest("POST /check-alerts", Some(SecretKey))
    /\ server_environ = [API_KEY |-> Some(SecretKey)]
    /\ request_body = <<>>
    /\ provider = <<>>
    /\ price_source = <<>>
    /\ checked_at = datetime(0, 0, 0, 0, FALSE)
    /\ market_open = None
    /\ response = NoResponse
    /\ lookups = <<>>
    /\ successful_fetches = 0

\* the client has not been started
ClientIdle ==
    /\ argv = <<>>
    /\ config_file = ConfigFile(FALSE, FALSE, {}, FALSE, <<>>)
    /\ environ = [API_KEY |-> None, API_URL |-> ""]
    /\ network = [outcomes |-> [i \in 1..MaxAttempts |-> "200"],
                  body |-> ApiBody(TRUE, <<>>, <<>>)]
    /\ run = NotRun
    /\ emails = <<>>

\* no tracker has been used: the one built at the start holds what it loaded
TrackerIdle ==
    /\ now = 0
    /\ silence_hours = 0
    /\ LET r == load_notified_data(file) IN
       /\ _data = r.data
       /\ call = Call("init", 0, NoAlert, <<>>, <<>>, <<>>, r.raised, r.warning, NoPrev)
       /\ pre = [data |-> EmptyDict, file |-> file, disk |-> DiskOk]
       /\ peer = r.data
    /\ lastMark = NoMark
    /\ saved = NotSaved
    /\ failures = 0

\* no run of the documented usage has started
UsageIdle ==
    /\ pc = "filter"
    /\ pending = <<>>
    /\ sent = NoSends

Init ==
    /\ now = 0
    /\ file \in InitialFiles
    /\ silence_hours \in SilenceHoursSet
    /\ LET r == load_notified_data(file) IN
       /\ _data = r.data
       /\ call = Call("init", 0, NoAlert, <<>>, <<>>, <<>>, r.raised, r.warning, NoPrev)
       /\ pre = [data |-> EmptyDict, file |-> file, disk |-> DiskOk]
       /\ peer = r.data
    /\ lastMark = NoMark
    /\ saved = NotSaved
    /\ failures = 0
    /\ pc = "filter"
    /\ pending = <<>>
    /\ sent = NoSends
    /\ ApiIdle
    /\ ClientIdle

(***************************************************************************)
(* Spec: any sequence of calls on one tracker at a time, the disk working. *)
(***************************************************************************)
Next ==
    \/ Tick /\ UNCHANGED <<usageVars, apiVars, clientVars>>
    \/ \E hours \in SilenceHoursSet : NewTracker(hours) /\ UNCHANGED <<usageVars, apiVars, clientVars>>
    \/ \E a \in Alerts : MarkNotified(a.ticker, a.type, DiskOk) /\ UNCHANGED <<usageVars, apiVars, clientVars>>
    \/ \E alerts \in AlertLists : FilterAlerts(alerts) /\ UNCHANGED <<usageVars, apiVars, clientVars>>
    \/ Cleanup(DiskOk) /\ UNCHANGED <<usageVars, apiVars, clientVars>>

Spec == Init /\ [][Next]_vars

(***************************************************************************)
(* DiskSpec: the disk may fail a save.  One configuration (silence_hours   *)
(* is the same for every tracker), alerts of two tickers, and              *)
(* filter_alerts is called with one alert at a time.                       *)
(***************************************************************************)
\* the alerts of the runs of DiskSpec: two tickers
DiskAlerts == {Alert("AAPL", "buy"), Alert("MSFT", "buy")}

MarkNotifiedFails ==
    /\ failures < MaxDiskFailures
    /\ \E a \in DiskAlerts, disk \in DiskFailures : MarkNotified(a.ticker, a.type, disk)
    /\ UNCHANGED <<usageVars, apiVars, clientVars>>

CleanupFails ==
    /\ failures < MaxDiskFailures
    /\ \E disk \in DiskFailures : Cleanup(disk)
    /\ UNCHANGED <<usageVars, apiVars, clientVars>>

DiskNext ==
    \/ Tick /\ UNCHANGED <<usageVars, apiVars, clientVars>>
    \/ NewTracker(silence_hours) /\ UNCHANGED <<usageVars, apiVars, clientVars>>
    \/ \E a \in DiskAlerts :
          MarkNotified(a.ticker, a.type, DiskOk) /\ UNCHANGED <<usageVars, apiVars, clientVars>>
    \/ \E a \in DiskAlerts :
          FilterAlerts(<<a>>) /\ UNCHANGED <<usageVars, apiVars, clientVars>>
    \/ Cleanup(DiskOk) /\ UNCHANGED <<usageVars, apiVars, clientVars>>
    \/ MarkNotifiedFails
    \/ CleanupFails

DiskSpec == Init /\ [][DiskNext]_vars

(***************************************************************************)
(* UsageSpec: runs of the documented usage (the class docstring): build    *)
(* the tracker, filter the alerts of the response, send each surviving     *)
(* alert and mark it after sending, clean up (or not), and again.  The     *)
(* configuration, hence silence_hours, is the same in every run.           *)
(***************************************************************************)
RunStart ==
    /\ pc = "start"
    /\ NewTracker(silence_hours)
    /\ pc' = "filter"
    /\ UNCHANGED <<pending, sent>>

RunFilter(alerts) ==
    /\ pc = "filter"
    /\ FilterAlerts(alerts)
    /\ pending' = call'.result
    /\ pc' = "send"
    /\ UNCHANGED sent

\* the notification for the first pending alert goes out
RunSend ==
    /\ pc = "send"
    /\ pending # <<>>
    /\ LET a == Head(pending)
           times == Append(sent[a], now)
       IN  sent' = [sent EXCEPT ![a] =
                       IF Len(times) > 2 THEN Tail(times) ELSE times]
    /\ pc' = "mark"
    /\ UNCHANGED <<trackerVars, pending>>

RunMark ==
    /\ pc = "mark"
    /\ MarkNotified(Head(pending).ticker, Head(pending).type, DiskOk)
    /\ pending' = Tail(pending)
    /\ pc' = "send"
    /\ UNCHANGED sent

RunCleanup ==
    /\ pc = "send"
    /\ pending = <<>>
    /\ Cleanup(DiskOk)
    /\ pc' = "start"
    /\ UNCHANGED <<pending, sent>>

RunEnd ==
    /\ pc = "send"
    /\ pending = <<>>
    /\ pc' = "start"
    /\ UNCHANGED <<trackerVars, pending, sent>>

UsageNext ==
    \/ Tick /\ UNCHANGED <<usageVars, apiVars, clientVars>>
    \/ RunStart /\ UNCHANGED <<apiVars, clientVars>>
    \/ \E alerts \in AlertLists : RunFilter(alerts) /\ UNCHANGED <<apiVars, clientVars>>
    \/ RunSend /\ UNCHANGED <<apiVars, clientVars>>
    \/ RunMark /\ UNCHANGED <<apiVars, clientVars>>
    \/ RunCleanup /\ UNCHANGED <<apiVars, clientVars>>
    \/ RunEnd /\ UNCHANGED <<apiVars, clientVars>>

UsageSpec == Init /\ [][UsageNext]_vars

(***************************************************************************)
(* LiveSpec: the calls made on one tracker while the clock keeps           *)
(* advancing: time.time() grows whatever the program does.                 *)
(***************************************************************************)
Clock == Tick /\ UNCHANGED <<usageVars, apiVars, clientVars>>

LiveNext ==
    \/ Clock
    \/ \E a \in DiskAlerts :
          MarkNotified(a.ticker, a.type, DiskOk)
          /\ UNCHANGED <<usageVars, apiVars, clientVars>>
    \/ \E a \in DiskAlerts :
          FilterAlerts(<<a>>) /\ UNCHANGED <<usageVars, apiVars, clientVars>>
    \/ Cleanup(DiskOk) /\ UNCHANGED <<usageVars, apiVars, clientVars>>

LiveSpec == Init /\ [][LiveNext]_vars /\ WF_vars(Clock)

(***************************************************************************)
(* SharedSpec: two processes, each with a NotificationTracker built over   *)
(* the same store and the same configuration, take turns between calls;    *)
(* nothing locks the store.  _data is the state of the tracker of the      *)
(* process that runs, peer the state of the other one.                     *)
(***************************************************************************)
\* the other process runs from now on
Switch ==
    /\ _data' = peer
    /\ peer' = _data
    /\ UNCHANGED <<now, file, silence_hours, call, pre, lastMark, saved, failures>>
    /\ UNCHANGED <<usageVars, apiVars, clientVars>>

SharedNext ==
    \/ Clock
    \/ Switch
    \/ NewTracker(silence_hours) /\ UNCHANGED <<usageVars, apiVars, clientVars>>
    \/ \E a \in DiskAlerts :
          MarkNotified(a.ticker, a.type, DiskOk)
          /\ UNCHANGED <<usageVars, apiVars, clientVars>>
    \/ Cleanup(DiskOk) /\ UNCHANGED <<usageVars, apiVars, clientVars>>

SharedSpec == Init /\ [][SharedNext]_vars

(***************************************************************************)
(* StoreSpec: a tracker built over a store whose text is any JSON          *)
(* document (an object of numbers, an object with a string among its       *)
(* values, an array) or no JSON at all, and the calls made on it.          *)
(***************************************************************************)
StoreFiles ==
    InitialFiles \cup
    {[exists |-> TRUE, content |-> <<LBracket, RBracket>>],
     [exists |-> TRUE, content |-> <<LBrace, NumberItem("AAPL:buy", 0), RBrace>>],
     [exists |-> TRUE, content |-> <<LBrace, TextItem("AAPL:buy"), RBrace>>],
     [exists |-> TRUE,
      content |-> <<LBrace, NumberItem("AAPL:buy", 0), TextItem("MSFT:buy"), RBrace>>]}

StoreInit ==
    /\ now = 0
    /\ file \in StoreFiles
    /\ silence_hours \in SilenceHoursSet
    /\ LET r == load_notified_data(file) IN
       /\ _data = r.data
       /\ call = Call("init", 0, NoAlert, <<>>, <<>>, <<>>, r.raised, r.warning, NoPrev)
       /\ pre = [data |-> EmptyDict, file |-> file, disk |-> DiskOk]
       /\ peer = r.data
    /\ lastMark = NoMark
    /\ saved = NotSaved
    /\ failures = 0
    /\ UsageIdle
    /\ ApiIdle
    /\ ClientIdle

StoreNext ==
    \/ Clock
    \/ NewTracker(silence_hours) /\ UNCHANGED <<usageVars, apiVars, clientVars>>
    \/ \E a \in DiskAlerts :
          MarkNotified(a.ticker, a.type, DiskOk)
          /\ UNCHANGED <<usageVars, apiVars, clientVars>>
    \/ \E a \in DiskAlerts :
          FilterAlerts(<<a>>) /\ UNCHANGED <<usageVars, apiVars, clientVars>>
    \/ Cleanup(DiskOk) /\ UNCHANGED <<usageVars, apiVars, clientVars>>

StoreSpec == StoreInit /\ [][StoreNext]_vars

(***************************************************************************)
(* ApiSpec: one POST /check-alerts.  The body of the request and what the  *)
(* price source answers for each of its tickers are drawn at the start;    *)
(* the framework validates the body and either answers 422 or calls        *)
(* check_alerts.                                                           *)
(***************************************************************************)
HasZeroThreshold(body) ==
    \E i \in DOMAIN body :
        Some(0) \in {body[i].thresholds.buy, body[i].thresholds.sell}

\* history() answering at once: a frame of one complete row, an empty
\* frame, a frame of nulls, or an exception
QuickHistories ==
    {Frame(1, required_columns, <<r>>) : r \in NumericRows \cap HourRows}
    \cup {Frame(1, required_columns, <<>>),
          Frame(1, required_columns, <<Row(None, None, None)>>),
          History("TimeoutError", LookupBudget + 1, {}, <<>>),
          History("Exception", 1, {}, <<>>)}

\* what the provider may do for the tickers of a body: anything per ticker
\* for a small body whose thresholds are positive or absent, the same for
\* every ticker otherwise
Providers(body) ==
    IF body \in SmallBodies /\ ~HasZeroThreshold(body)
    THEN [TickersOf(body) -> QuickHistories]
    ELSE {[t \in TickersOf(body) |-> h] : h \in QuickHistories}

\* per ticker, what get_24h_range makes of the provider's answer
Answers(prov) == [t \in DOMAIN prov |-> get_24h_range(prov[t])]

\* is_market_open has not been called
MarketIdle ==
    /\ checked_at = datetime(0, 0, 0, 0, FALSE)
    /\ market_open = None

ApiInit ==
    /\ file = [exists |-> FALSE, content |-> <<>>]
    /\ TrackerIdle
    /\ UsageIdle
    /\ ClientIdle
    /\ MarketIdle
    /\ http_request = HttpRequest("POST /check-alerts", Some(SecretKey))
    /\ server_environ = [API_KEY |-> Some(SecretKey)]
    /\ request_body \in SmallBodies \cup LargeBodies
    /\ provider \in Providers(request_body)
    /\ price_source = Answers(provider)
    /\ response = NoResponse
    /\ lookups = <<>>
    /\ successful_fetches = 0

\* the dependency require_api_key let the request through
Authenticated ==
    require_api_key(http_request.x_api_key, server_environ).raised = NoException

Answer(status) ==
    [status |-> status, alerts |-> <<>>, errors |-> <<>>, service_degraded |-> FALSE]

\* GET /health: no dependency, always {"status": "ok"}
Health ==
    /\ response.status = 0
    /\ http_request.endpoint = "GET /health"
    /\ response' = Answer(200)
    /\ UNCHANGED <<http_request, server_environ, request_body, provider, price_source,
                   lookups, successful_fetches, checked_at, market_open>>
    /\ UNCHANGED <<trackerVars, usageVars, clientVars>>

\* the dependency require_api_key raises: the framework answers with the
\* status code of the HTTPException, or with 500 for any other exception,
\* and the handler is not called
DenyRequest ==
    /\ response.status = 0
    /\ http_request.endpoint = "POST /check-alerts"
    /\ LET r == require_api_key(http_request.x_api_key, server_environ) IN
       /\ r.raised # NoException
       /\ response' = Answer(IF r.raised = "HTTPException"
                             THEN r.value.status_code ELSE 500)
    /\ UNCHANGED <<http_request, server_environ, request_body, provider, price_source,
                   lookups, successful_fetches, checked_at, market_open>>
    /\ UNCHANGED <<trackerVars, usageVars, clientVars>>

\* the body fails the validation of AlertRequest: status 422, and the
\* handler is not called
RejectRequest ==
    /\ response.status = 0
    /\ http_request.endpoint = "POST /check-alerts"
    /\ Authenticated
    /\ ~AlertRequest(request_body).ok
    /\ response' = Answer(422)
    /\ UNCHANGED <<http_request, server_environ, request_body, provider, price_source,
                   lookups, successful_fetches, checked_at, market_open>>
    /\ UNCHANGED <<trackerVars, usageVars, clientVars>>

\* the handler check_alerts, called with the validated request; an exception
\* leaving it is answered with status 500
CheckAlerts ==
    /\ response.status = 0
    /\ http_request.endpoint = "POST /check-alerts"
    /\ Authenticated
    /\ AlertRequest(request_body).ok
    /\ LET r == check_alerts(AlertRequest(request_body).root, Answers(provider)) IN
       /\ response' = [status |-> IF r.raised THEN 500 ELSE 200, alerts |-> r.alerts,
                       errors |-> r.errors,
                       service_degraded |-> r.service_degraded]
       /\ lookups' = r.lookups
       /\ successful_fetches' = r.successful_fetches
    /\ UNCHANGED <<http_request, server_environ, request_body, provider, price_source,
                   checked_at, market_open>>
    /\ UNCHANGED <<trackerVars, usageVars, clientVars>>

ApiNext ==
    \/ RejectRequest
    \/ CheckAlerts

ApiSpec == ApiInit /\ [][ApiNext]_vars

(***************************************************************************)
(* AuthSpec: one request to GET /health or to POST /check-alerts, with any *)
(* X-API-Key header and any API_KEY on the server.                         *)
(***************************************************************************)
AuthBodies == {body \in SmallBodies : Len(body) <= 1}

AuthInit ==
    /\ file = [exists |-> FALSE, content |-> <<>>]
    /\ TrackerIdle
    /\ UsageIdle
    /\ ClientIdle
    /\ MarketIdle
    /\ http_request \in
           {HttpRequest(e, h) : e \in {"GET /health", "POST /check-alerts"},
                                h \in HeaderValues}
    /\ server_environ \in [API_KEY : ApiKeySettings]
    /\ request_body \in AuthBodies
    /\ provider \in {[t \in TickersOf(request_body) |-> h] : h \in QuickHistories}
    /\ price_source = Answers(provider)
    /\ response = NoResponse
    /\ lookups = <<>>
    /\ successful_fetches = 0

AuthNext ==
    \/ Health
    \/ DenyRequest
    \/ RejectRequest
    \/ CheckAlerts

AuthSpec == AuthInit /\ [][AuthNext]_vars

(***************************************************************************)
(* LookupSpec: one authenticated POST /check-alerts with the tickers of a  *)
(* client configuration, while history() does anything for AAPL.           *)
(***************************************************************************)
OtherHistories ==
    {History("TimeoutError", LookupBudget + 1, {}, <<>>),
     Frame(1, required_columns, <<Row(Some(1), Some(1), Some(1))>>),
     Frame(LookupBudget + 1, required_columns, <<>>)}

LookupProviders(body) ==
    {[t \in TickersOf(body) |-> IF t = "AAPL" THEN h ELSE g] :
        h \in Histories, g \in OtherHistories}

LookupInit ==
    /\ file = [exists |-> FALSE, content |-> <<>>]
    /\ TrackerIdle
    /\ UsageIdle
    /\ ClientIdle
    /\ MarketIdle
    /\ http_request = HttpRequest("POST /check-alerts", Some(SecretKey))
    /\ server_environ = [API_KEY |-> Some(SecretKey)]
    /\ request_body \in ConfigTickers
    /\ provider \in LookupProviders(request_body)
    /\ price_source = Answers(provider)
    /\ response = NoResponse
    /\ lookups = <<>>
    /\ successful_fetches = 0

LookupNext == CheckAlerts

LookupSpec == LookupInit /\ [][LookupNext]_vars

(***************************************************************************)
(* MarketSpec: is_market_open called with one datetime.                    *)
(***************************************************************************)
MarketInit ==
    /\ file = [exists |-> FALSE, content |-> <<>>]
    /\ TrackerIdle
    /\ UsageIdle
    /\ ClientIdle
    /\ http_request = HttpRequest("POST /check-alerts", Some(SecretKey))
    /\ server_environ = [API_KEY |-> Some(SecretKey)]
    /\ request_body = <<>>
    /\ provider = <<>>
    /\ price_source = <<>>
    /\ response = NoResponse
    /\ lookups = <<>>
    /\ successful_fetches = 0
    /\ checked_at \in CheckTimes
    /\ market_open = None

IsMarketOpen ==
    /\ market_open = None
    /\ market_open' = Some(is_market_open(checked_at))
    /\ UNCHANGED <<http_request, server_environ, request_body, provider, price_source,
                   response, lookups, successful_fetches, checked_at>>
    /\ UNCHANGED <<trackerVars, usageVars, clientVars>>

MarketNext == IsMarketOpen

MarketSpec == MarketInit /\ [][MarketNext]_vars

(***************************************************************************)
(* ClientSpec: one run of the client, python -m client.main [--dry-run].   *)
(* The command line, config.json, the environment, the network and the     *)
(* store left by earlier runs are drawn at the start.                      *)
(***************************************************************************)
Stores ==
    {[exists |-> FALSE, content |-> <<>>],
     [exists |-> TRUE, content |-> json_dump(EmptyDict)],
     [exists |-> TRUE, content |-> json_dump(DictSet(EmptyDict, "AAPL:buy", 0))]}

ClientInit ==
    /\ file \in Stores
    /\ TrackerIdle
    /\ UsageIdle
    /\ ApiIdle
    /\ argv \in CommandLines
    /\ config_file \in ConfigFiles
    /\ environ \in [API_KEY : {None, Some(""), Some("key")},
                    API_URL : {"", "http://localhost:8000/check-alerts"}]
    /\ network \in [outcomes : [1..MaxAttempts -> AttemptOutcomes], body : ApiBodies]
    /\ run = NotRun
    /\ emails = <<>>

\* main() reaching a successful response and then, whatever the mode,
\* sending an email for the first alert and marking it as notified
MainNotifies ==
    LET r == main(argv, config_file, environ, network) IN
    /\ ~run.done
    /\ run' = [done |-> TRUE, dry_run |-> r.dry_run, exit_code |-> r.exit_code,
               stdout |-> r.stdout, stderr |-> r.stderr, attempts |-> r.attempts,
               exception |-> r.exception, escaped |-> r.escaped,
               store_before |-> file]
    /\ IF r.exit_code = 0 /\ network.body.alerts # <<>>
       THEN LET alert == network.body.alerts[1] IN
            /\ emails' = Append(emails, alert)
            /\ MarkNotified(alert.ticker, alert.type, DiskOk)
       ELSE UNCHANGED <<emails, trackerVars>>
    /\ UNCHANGED <<argv, config_file, environ, network>>
    /\ UNCHANGED <<usageVars, apiVars>>

\* one run of main(): it reads the command line, config.json and the
\* environment, calls the API and prints; it builds no NotificationTracker
\* and sends no email
Main ==
    LET r == main(argv, config_file, environ, network) IN
    /\ ~run.done
    /\ run' = [done |-> TRUE, dry_run |-> r.dry_run, exit_code |-> r.exit_code,
               stdout |-> r.stdout, stderr |-> r.stderr, attempts |-> r.attempts,
               exception |-> r.exception, escaped |-> r.escaped,
               store_before |-> file]
    /\ UNCHANGED <<argv, config_file, environ, network, emails>>
    /\ UNCHANGED <<trackerVars, usageVars, apiVars>>

ClientNext == Main

ClientSpec == ClientInit /\ [][ClientNext]_vars

(***************************************************************************)
(* The claims.                                                             *)
(***************************************************************************)
\* the key "{ticker}:{type}" of an alert
KeyOf(a) == a.ticker \o ":" \o a.type
Window == silence_hours * 3600
Elems(l) == {l[i] : i \in DOMAIN l}
\* the alert is one the store d silences at time t
Silenced(a, d, t) == KeyOf(a) \in DOMAIN d /\ (t - d[KeyOf(a)]) < Window

RECURSIVE IsSubsequence(_, _)
IsSubsequence(s, t) ==
    IF s = <<>> THEN TRUE
    ELSE IF t = <<>> THEN FALSE
    ELSE IF Head(s) = Head(t) THEN IsSubsequence(Tail(s), Tail(t))
    ELSE IsSubsequence(s, Tail(t))

\* C1: filter_alerts drops an alert of its input if and only if the key
\* "{ticker}:{type}" is in the notification state and the time since the
\* stored timestamp is less than silence_hours*3600; every other alert is
\* kept, one whose age equals the window included.
C1_FilterDropsExactlySilenced ==
    call.op = "filter_alerts" =>
        \A a \in Elems(call.alerts) :
            (a \in Elems(call.result)) <=> ~Silenced(a, pre.data, call.time)

C1_Witness ==
    /\ call.op = "filter_alerts"
    /\ silence_hours > 0
    /\ \E a \in Elems(call.alerts) :
         /\ KeyOf(a) \in DOMAIN pre.data
         /\ call.time - pre.data[KeyOf(a)] = Window
         /\ a \in Elems(call.result)
    /\ \E a \in Elems(call.alerts) : a \notin Elems(call.result)
    /\ \E a \in Elems(call.result) : KeyOf(a) \notin DOMAIN pre.data

C3_MarkSetsAndPersists ==
    (call.op = "mark_notified" /\ ~call.raised) =>
        /\ KeyOf(call.alert) \in DOMAIN _data
        /\ _data[KeyOf(call.alert)] = call.time
        /\ file.exists
        /\ json_loads(file.content) = [ok |-> TRUE, value |-> _data]

C3_Witness ==
    /\ call.op = "mark_notified"
    /\ ~call.raised
    /\ failures > 0
    /\ Cardinality(DOMAIN _data) >= 2
    /\ KeyOf(call.alert) \in DOMAIN pre.data
    /\ pre.data[KeyOf(call.alert)] < call.time

\* C4: a tracker built after an earlier tracker's mark_notified or cleanup
\* returned holds the mapping that was last saved, and drops the alerts
\* that mapping silences.
C4_NextTrackerLoadsWhatWasSaved ==
    saved.done =>
        /\ call.op = "init" => _data = saved.data
        /\ call.op = "filter_alerts" =>
              \A a \in Elems(call.alerts) :
                  Silenced(a, saved.data, call.time) => a \notin Elems(call.result)

\* a tracker that has marked nothing itself drops an alert
C4_Witness ==
    /\ saved.done
    /\ call.op = "filter_alerts"
    /\ lastMark = NoMark
    /\ Cardinality(DOMAIN saved.data) >= 2
    /\ \E a \in Elems(call.alerts) :
         Silenced(a, saved.data, call.time) /\ saved.data[KeyOf(a)] > 0

\* C5: cleanup removes the entries whose age is silence_hours*3600 or more
\* and no other, leaves the rest as they were, and saves the result; on an
\* empty state it leaves the state empty and does not raise.
C5_CleanupRemovesExactlyExpired ==
    call.op = "cleanup" =>
        /\ DOMAIN _data =
             {k \in DOMAIN pre.data : (call.time - pre.data[k]) < Window}
        /\ \A k \in DOMAIN _data : _data[k] = pre.data[k]
        /\ ~call.raised
        /\ file.exists
        /\ json_loads(file.content) = [ok |-> TRUE, value |-> _data]

C5_Witness ==
    /\ call.op = "cleanup"
    /\ silence_hours > 0
    /\ \E k \in DOMAIN pre.data :
         call.time - pre.data[k] = Window /\ k \notin DOMAIN _data
    /\ \E k \in DOMAIN _data : call.time - _data[k] < Window

\* C6 as stated: mark_notified(t, k) followed at once by filter_alerts([{t, k}])
\* yields the empty list; once more than the window has passed with no
\* further mark, the same call yields the alert again.
C6_MarkThenFilter ==
    (/\ call.op = "filter_alerts"
     /\ lastMark # NoMark
     /\ call.alerts = <<lastMark.alert>>) =>
        /\ call.time = lastMark.time => call.result = <<>>
        /\ call.time - lastMark.time > Window => call.result = call.alerts

\* C6 amended: the same, for a tracker whose silence_hours is at least 1.
C6_MarkThenFilterPositiveWindow ==
    (/\ call.op = "filter_alerts"
     /\ lastMark # NoMark
     /\ call.alerts = <<lastMark.alert>>
     /\ silence_hours >= 1) =>
        /\ call.time = lastMark.time => call.result = <<>>
        /\ call.time - lastMark.time > Window => call.result = call.alerts

C6_Witness ==
    /\ call.op = "filter_alerts"
    /\ lastMark # NoMark
    /\ call.alerts = <<lastMark.alert>>
    /\ silence_hours >= 1
    /\ call.time - lastMark.time > Window
    /\ call.prev.repeat
    /\ call.prev.time = lastMark.time
    /\ call.prev.result = <<>>

\* C7 as stated: filter_alerts called twice in a row on the same list, with
\* no mark_notified in between, yields the same result both times.
C7_FilterTwiceSameResult ==
    (call.op = "filter_alerts" /\ call.prev.repeat) =>
        call.result = call.prev.result

\* C7 amended: with the clock reading the same at both calls the two results
\* are equal; when time has passed between them the first result is a
\* subsequence of the second.
C7_FilterTwiceSameClock ==
    (call.op = "filter_alerts" /\ call.prev.repeat) =>
        /\ call.time = call.prev.time => call.result = call.prev.result
        /\ IsSubsequence(call.prev.result, call.result)

C7_Witness ==
    /\ call.op = "filter_alerts"
    /\ call.prev.repeat
    /\ call.time = call.prev.time
    /\ call.result # <<>>
    /\ call.result # call.alerts

\* C8: filter_alerts reads only: the tracker's state and the store are after
\* the call what they were before it, and so is the list it was given.
C8_FilterIsPureRead ==
    call.op = "filter_alerts" =>
        /\ _data = pre.data
        /\ file = pre.file
        /\ call.alerts_after = call.alerts

C8_Witness ==
    /\ call.op = "filter_alerts"
    /\ \E a \in Elems(call.alerts) : a \notin Elems(call.result)
    /\ \E a \in Elems(call.result) :
         KeyOf(a) \in DOMAIN _data /\ ~Silenced(a, _data, call.time)

\* C9: the list filter_alerts returns is a subsequence of the list it was
\* given.
C9_ResultIsSubsequence ==
    call.op = "filter_alerts" => IsSubsequence(call.result, call.alerts)

C9_Witness ==
    /\ call.op = "filter_alerts"
    /\ Len(call.alerts) = 3
    /\ Len(call.result) = 2
    /\ call.alerts[2] \notin Elems(call.result)

\* C10: building the tracker never raises; over a store that is missing,
\* empty or not JSON it starts from the empty history, and says so with a
\* warning when the store is not JSON.
StoreMissing(f) == ~f.exists
StoreEmpty(f) == f.exists /\ \A i \in DOMAIN f.content : f.content[i] = Space
StoreCorrupt(f) == f.exists /\ ~StoreEmpty(f) /\ ~json_loads(strip(f.content)).ok

C10_LoadNeverFails ==
    call.op = "init" =>
        /\ ~call.raised
        /\ (StoreMissing(pre.file) \/ StoreEmpty(pre.file) \/ StoreCorrupt(pre.file))
              => _data = EmptyDict
        /\ StoreCorrupt(pre.file) => call.warning

C10_Witness ==
    /\ call.op = "init"
    /\ StoreCorrupt(pre.file)
    /\ call.time > 0
    /\ ~call.raised

\* C11: a mark_notified or cleanup whose save fails (open() or the write
\* raises) does not return normally: the error reaches the caller.
C11_SaveFailurePropagates ==
    (call.op \in {"mark_notified", "cleanup"} /\ pre.disk.kind # "ok") =>
        call.raised

C11_Witness ==
    /\ call.op = "cleanup"
    /\ pre.disk.kind = "write_fails"
    /\ call.raised
    /\ pre.data # EmptyDict
    /\ lastMark # NoMark

(***************************************************************************)
(* The claims about POST /check-alerts.                                    *)
(***************************************************************************)
Requested == TickersOf(request_body)
\* the thresholds the request gives for ticker t
Wanted(t) == (CHOOSE i \in DOMAIN request_body : request_body[i].ticker = t)
Buy(t) == request_body[Wanted(t)].thresholds.buy
Sell(t) == request_body[Wanted(t)].thresholds.sell
\* the lookup of ticker t succeeded: low, high and last
Fetched(t) == price_source[t].kind = "ok"
Low(t) == price_source[t].min_price
High(t) == price_source[t].max_price
Last(t) == price_source[t].current_price
\* the positions of the alerts and of the errors of ticker t in the response
AlertsFor(t, type) ==
    {i \in DOMAIN response.alerts :
        response.alerts[i].ticker = t /\ response.alerts[i].type = type}
ErrorsFor(t) == {i \in DOMAIN response.errors : response.errors[i].ticker = t}
BuyDue(t) == Buy(t) # None /\ Low(t) <= Buy(t)[1]
SellDue(t) == Sell(t) # None /\ High(t) >= Sell(t)[1]

\* C13: for every ticker whose lookup succeeds the response holds a buy
\* alert if and only if buy is set and low <= buy, and that alert carries
\* threshold = buy, reached = low, current = last.
C13_BuyAlertIffLowAtMostBuy ==
    response.status = 200 =>
        \A t \in Requested : Fetched(t) =>
            /\ (AlertsFor(t, "buy") # {}) <=> BuyDue(t)
            /\ \A i \in AlertsFor(t, "buy") :
                   /\ response.alerts[i].threshold = Buy(t)[1]
                   /\ response.alerts[i].reached = Low(t)
                   /\ response.alerts[i].current = Last(t)

\* C14: for every ticker whose lookup succeeds the response holds a sell
\* alert if and only if sell is set and high >= sell, and that alert carries
\* threshold = sell, reached = high, current = last.
C14_SellAlertIffHighAtLeastSell ==
    response.status = 200 =>
        \A t \in Requested : Fetched(t) =>
            /\ (AlertsFor(t, "sell") # {}) <=> SellDue(t)
            /\ \A i \in AlertsFor(t, "sell") :
                   /\ response.alerts[i].threshold = Sell(t)[1]
                   /\ response.alerts[i].reached = High(t)
                   /\ response.alerts[i].current = Last(t)

\* C15: a ticker with both thresholds set, low <= buy and high >= sell gets
\* exactly two alerts, one buy and one sell, with the same current price.
C15_BothAlerts ==
    response.status = 200 =>
        \A t \in Requested : (Fetched(t) /\ BuyDue(t) /\ SellDue(t)) =>
            /\ Cardinality(AlertsFor(t, "buy")) = 1
            /\ Cardinality(AlertsFor(t, "sell")) = 1
            /\ \A i \in AlertsFor(t, "buy"), j \in AlertsFor(t, "sell") :
                   response.alerts[i].current = response.alerts[j].current

\* C16: every requested ticker has in the response either no error (and any
\* number of alerts) or exactly one error and no alert; a ticker whose lookup
\* failed is not dropped, it has its error; alerts and errors name requested
\* tickers only.
C16_EveryTickerAccountedOnce ==
    response.status = 200 =>
        /\ \A t \in Requested :
              /\ Cardinality(ErrorsFor(t)) <= 1
              /\ ErrorsFor(t) # {} =>
                    AlertsFor(t, "buy") \cup AlertsFor(t, "sell") = {}
              /\ ~Fetched(t) => Cardinality(ErrorsFor(t)) = 1
        /\ \A i \in DOMAIN response.alerts : response.alerts[i].ticker \in Requested
        /\ \A i \in DOMAIN response.errors : response.errors[i].ticker \in Requested

\* one ticker with two alerts, one whose lookup failed, or one whose alert
\* could not be built
C16_Witness ==
    /\ response.status = 200
    /\ \E t \in Requested :
         AlertsFor(t, "buy") # {} /\ AlertsFor(t, "sell") # {} /\ Low(t) < High(t)
    /\ \E t \in Requested : Fetched(t) /\ ErrorsFor(t) # {} /\ Sell(t) # None

\* C17: service_degraded is true if and only if the request has at least one
\* ticker and every requested ticker produced an error.
C17_DegradedIffAllErrors ==
    response.status = 200 =>
        (response.service_degraded <=>
            (Requested # {} /\ \A t \in Requested : ErrorsFor(t) # {}))

\* C18: a failed lookup does not end the batch: get_24h_range is called for
\* every ticker of the request, in order, each failed ticker has one error,
\* and no exception leaves check_alerts.
C18_FailureDoesNotAbort ==
    response.status \notin {0, 422} =>
        /\ response.status = 200
        /\ lookups = [i \in DOMAIN request_body |-> request_body[i].ticker]
        /\ \A t \in Requested : ~Fetched(t) => Cardinality(ErrorsFor(t)) = 1

\* the first lookup fails with an unclassified exception, the second ticker
\* still gets its alert
C18_Witness ==
    /\ response.status = 200
    /\ Len(request_body) = 2
    /\ price_source[request_body[1].ticker].kind = "Exception"
    /\ ErrorsFor(request_body[1].ticker) # {}
    /\ AlertsFor(request_body[2].ticker, "buy") # {}

\* C19: the response holds at most one alert per (ticker, type), and none
\* for a ticker with neither threshold, whatever its prices.
C19_AtMostOneAlertPerPair ==
    response.status = 200 =>
        \A t \in Requested :
            /\ Cardinality(AlertsFor(t, "buy")) <= 1
            /\ Cardinality(AlertsFor(t, "sell")) <= 1
            /\ (Buy(t) = None /\ Sell(t) = None) =>
                   AlertsFor(t, "buy") \cup AlertsFor(t, "sell") = {}

C19_Witness ==
    /\ response.status = 200
    /\ \E t \in Requested :
         /\ Buy(t) = None /\ Sell(t) = None
         /\ Fetched(t) /\ Low(t) = 1 /\ High(t) = MaxPrice
    /\ \E t \in Requested : AlertsFor(t, "buy") # {} /\ AlertsFor(t, "sell") # {}

\* a threshold of the body that is present and not positive
NonPositive(x) == x # None /\ x[1] <= 0
Invalid(body) ==
    \/ Len(body) > 20
    \/ \E i \in DOMAIN body :
          NonPositive(body[i].thresholds.buy) \/ NonPositive(body[i].thresholds.sell)

\* C20: a request with more than 20 tickers, or with a threshold that is
\* present and <= 0, is answered 422 and no price is looked up; any other
\* request (0 to 20 tickers, thresholds positive or absent) is accepted.
C20_InvalidRequestRejected ==
    response.status # 0 =>
        /\ Invalid(request_body) => (response.status = 422 /\ lookups = <<>>)
        /\ ~Invalid(request_body) => response.status = 200

C20_Witness ==
    /\ response.status = 422
    /\ Len(request_body) = 21
    /\ \A i \in DOMAIN request_body :
         ~NonPositive(request_body[i].thresholds.buy)
         /\ ~NonPositive(request_body[i].thresholds.sell)
    /\ lookups = <<>>

(***************************************************************************)
(* The claims about the client.                                            *)
(***************************************************************************)
\* the alerts of the response are on stdout, one line each, in order
AlertsPrinted ==
    LET shown == SelectSeq(run.stdout, LAMBDA l : l.line = "alert") IN
    /\ Len(shown) = Len(network.body.alerts)
    /\ \A i \in DOMAIN shown :
           /\ shown[i].ticker = network.body.alerts[i].ticker
           /\ shown[i].type = network.body.alerts[i].type

\* C12: a run of the client with --dry-run calls neither mark_notified nor
\* cleanup and leaves the store as it found it, sends no email, and prints
\* the alerts of the response it received.
C12_DryRunLeavesStore ==
    (run.done /\ run.dry_run) =>
        /\ call.op \notin {"mark_notified", "cleanup"}
        /\ file = run.store_before
        /\ emails = <<>>
        /\ run.exit_code = 0 => AlertsPrinted

C12_Witness ==
    /\ run.done
    /\ run.dry_run
    /\ run.exit_code = 0
    /\ run.attempts = 2
    /\ Len(network.body.alerts) = 2
    /\ AlertsPrinted
    /\ file.exists
    /\ json_loads(file.content).value # EmptyDict

\* the run parsed its command line and read its configuration: main went
\* on to call_api
ArgsKnown == \A i \in DOMAIN argv : argv[i] = "--dry-run"
ConfigLoaded ==
    /\ run.done
    /\ ArgsKnown
    /\ load_config(config_file).raised = NoException
KeyInEnviron == environ.API_KEY # None /\ environ.API_KEY # Some("")

Retryable(outcome) == outcome \in {"Timeout", "ConnectionError", "500"}
\* the exception an attempt that failed leaves call_api with
FailureOf(outcome) ==
    CASE outcome \in {"401", "404", "500"} -> "HTTPError"
      [] outcome = "NoStatus" -> "RuntimeError"
      [] OTHER -> outcome

\* C22: call_api sends one or two requests; it sends the second exactly when
\* the first met a Timeout, a ConnectionError or a 5xx response (never after
\* a 401, another 4xx, a RequestException or a response without status).
\* When the last request it sent was answered 200 the body of that response
\* is what main gets; otherwise the failure of that last request is raised.
C22_AtMostOneRetry ==
    (ConfigLoaded /\ KeyInEnviron) =>
        /\ run.attempts \in 1..2
        /\ run.attempts = 2 <=> Retryable(network.outcomes[1])
        /\ LET last == network.outcomes[run.attempts] IN
           IF last = "200"
           THEN IF network.body.wellformed
                THEN run.exception = NoException /\ AlertsPrinted
                ELSE run.exception = "KeyError"
           ELSE run.exception = FailureOf(last)

C22_Witness ==
    /\ ConfigLoaded
    /\ KeyInEnviron
    /\ network.outcomes = <<"Timeout", "500">>
    /\ run.attempts = 2
    /\ run.exception = "HTTPError"

\* C27: with API_KEY missing from the environment, or empty, call_api
\* raises ValueError and no request is sent.
C27_NoKeyNoRequest ==
    (ConfigLoaded /\ ~KeyInEnviron) =>
        /\ run.exception = "ValueError"
        /\ run.attempts = 0

C27_Witness ==
    /\ ConfigLoaded
    /\ environ.API_KEY = Some("")
    /\ network.outcomes[1] = "200"
    /\ run.exception = "ValueError"
    /\ run.attempts = 0

(***************************************************************************)
(* The claims about the API key (AuthSpec).                                *)
(***************************************************************************)
\* the server has a key configured: API_KEY is set and not blank
KeyConfigured ==
    /\ server_environ.API_KEY # None
    /\ strip(server_environ.API_KEY[1]) # <<>>

\* the header is there and, stripped, is the configured key
KeyMatches ==
    /\ http_request.x_api_key # None
    /\ strip(http_request.x_api_key[1]) # <<>>
    /\ strip(http_request.x_api_key[1]) = strip(server_environ.API_KEY[1])

\* C21: GET /health answers 200 whatever the header.  POST /check-alerts:
\* without a configured API_KEY the answer is 500; with one, a missing,
\* blank or non-matching X-API-Key is answered 401; in both cases no ticker
\* is looked up.  Only a header that, stripped, equals the configured key
\* reaches the validation of the body and the evaluation.
C21_KeyRequired ==
    response.status # 0 =>
        /\ http_request.endpoint = "GET /health" => response.status = 200
        /\ http_request.endpoint = "POST /check-alerts" =>
            /\ ~KeyConfigured => (response.status = 500 /\ lookups = <<>>)
            /\ (KeyConfigured /\ ~KeyMatches) =>
                   (response.status = 401 /\ lookups = <<>>)
            /\ (KeyConfigured /\ KeyMatches) => response.status \in {200, 422}
            /\ lookups # <<>> => (KeyConfigured /\ KeyMatches)

(***************************************************************************)
(* The claims about the states of a key (Spec).                            *)
(***************************************************************************)
\* what filter_already_notified returns for a list over a state at a time
Kept(alerts, d, t) == filter_already_notified(alerts, d, silence_hours, t).filtered_alerts

\* C28: cleanup keeps every entry whose age is below the window, with its
\* timestamp, and removes only entries whose age is the window or more; so
\* filter_alerts returns, for every alert list, at the time of the cleanup,
\* the same list after the cleanup as before it.  No call of mark_notified,
\* filter_alerts or cleanup takes an alert out of the silenced state.
C28_CleanupKeepsSilenced ==
    /\ call.op = "cleanup" =>
          /\ \A k \in DOMAIN pre.data :
                 (call.time - pre.data[k]) < Window =>
                     (k \in DOMAIN _data /\ _data[k] = pre.data[k])
          /\ \A k \in DOMAIN pre.data \ DOMAIN _data :
                 (call.time - pre.data[k]) >= Window
          /\ \A alerts \in AlertLists :
                 Kept(alerts, _data, call.time) = Kept(alerts, pre.data, call.time)
    /\ call.op \in {"mark_notified", "filter_alerts", "cleanup"} =>
          \A a \in Alerts :
              Silenced(a, pre.data, call.time) => Silenced(a, _data, call.time)

C28_Witness ==
    /\ call.op = "cleanup"
    /\ \E k \in DOMAIN pre.data : k \notin DOMAIN _data
    /\ \E a \in Alerts :
          /\ Silenced(a, _data, call.time)
          /\ \E alerts \in AlertLists :
                /\ a \in Elems(alerts)
                /\ Kept(alerts, _data, call.time) # <<>>
                /\ Kept(alerts, _data, call.time) # alerts

\* C29: mark_notified for a key leaves the state with the keys it had plus
\* that key, the key mapped to the time of the call (also when it was there
\* with an older timestamp), and every other key with the timestamp it had;
\* the store, read back, has one entry for the key.
C29_MarkTouchesOneKey ==
    call.op = "mark_notified" =>
        LET key == KeyOf(call.alert) IN
        /\ DOMAIN _data = DOMAIN pre.data \cup {key}
        /\ _data[key] = call.time
        /\ \A k \in DOMAIN pre.data \ {key} : _data[k] = pre.data[k]
        /\ Len(SelectSeq(file.content, LAMBDA tok : tok.key = key)) = 1

C29_Witness ==
    /\ call.op = "mark_notified"
    /\ KeyOf(call.alert) \in DOMAIN pre.data
    /\ pre.data[KeyOf(call.alert)] < call.time
    /\ \E k \in DOMAIN _data : k # KeyOf(call.alert) /\ _data[k] < call.time

\* the hours at which the clock of the model can stand (one tick is an hour)
ClockHours == 0..MaxTicks
\* the state holds the key of the alert with timestamp m: the last
\* notification of the alert was at m
MarkedAt(a, m) == KeyOf(a) \in DOMAIN _data /\ _data[KeyOf(a)] = m
\* filter_alerts, called now with the alert, would drop it
Suppressed(a) == Kept(<<a>>, _data, now) = <<>>

\* C30 (LiveSpec): an alert that filter_alerts drops because of its
\* notification at hour h is, unless it is notified again, eventually kept by
\* filter_alerts, provided the clock can reach the end of the window of that
\* notification (hour h + silence_hours).
C30_SilencedBecomesEligible ==
    \A a \in DiskAlerts : \A h \in ClockHours :
        (/\ MarkedAt(a, h * TickSeconds)
         /\ Suppressed(a)
         /\ h + silence_hours <= MaxTicks)
            ~> (~MarkedAt(a, h * TickSeconds) \/ ~Suppressed(a))

C30_Witness ==
    /\ silence_hours > 0
    /\ call.op = "filter_alerts"
    /\ call.time = now
    /\ \E a \in DiskAlerts :
          /\ MarkedAt(a, 0)
          /\ now >= Window
          /\ call.alerts = <<a>>
          /\ call.result = <<a>>

(***************************************************************************)
(* The claims about the price lookup (LookupSpec, ApiSpec).                *)
(***************************************************************************)
\* the messages of the errors recorded for a ticker
ErrorKindsFor(t) == {response.errors[i].error : i \in ErrorsFor(t)}

\* C23: a lookup that takes longer than the budget of 10 seconds is
\* reported as a "Timeout" error for its ticker.
C23_SlowLookupIsTimeout ==
    response.status = 200 =>
        \A t \in Requested :
            provider[t].seconds > LookupBudget => ErrorKindsFor(t) = {"Timeout"}

\* C24: a ticker whose lookup failed has one error, whose message starts
\* with the prefix of the failure kind: "Invalid ticker", "Market closed",
\* "Timeout", or "Unexpected error" for anything else.  get_24h_range turns
\* an empty frame or a frame lacking a required column into an invalid
\* ticker, and a frame of nulls into a closed market.
C24_ErrorReflectsFailureKind ==
    response.status = 200 =>
        \A t \in Requested :
            LET hist == provider[t]
                kind == price_source[t].kind
                returned == hist.raised = NoException
                lacking == hist.rows = <<>> \/ required_columns \ hist.columns # {}
            IN  /\ kind = "InvalidTickerError" => ErrorKindsFor(t) = {"Invalid ticker"}
                /\ kind = "MarketClosedError" => ErrorKindsFor(t) = {"Market closed"}
                /\ kind = "StockDataTimeoutError" => ErrorKindsFor(t) = {"Timeout"}
                /\ kind = "Exception" => ErrorKindsFor(t) = {"Unexpected error"}
                /\ kind # "ok" => Cardinality(ErrorsFor(t)) = 1
                /\ hist.raised = "TimeoutError" => kind = "StockDataTimeoutError"
                /\ (returned /\ lacking) => kind = "InvalidTickerError"
                /\ (returned /\ ~lacking /\ AllNull(hist.rows)) =>
                       kind = "MarketClosedError"

C24_Witness ==
    /\ response.status = 200
    /\ Len(request_body) = 2
    /\ provider["AAPL"].raised = NoException
    /\ Len(provider["AAPL"].rows) = 2
    /\ AllNull(provider["AAPL"].rows)
    /\ provider["MSFT"].rows = <<>>
    /\ \E i, j \in DOMAIN response.errors :
          /\ response.errors[i] = ErrorDetail("AAPL", "Market closed")
          /\ response.errors[j] = ErrorDetail("MSFT", "Invalid ticker")

\* C25: in one cycle get_24h_range is called exactly once for each ticker of
\* the request, whether the lookup fails or not.
C25_OneLookupPerTicker ==
    response.status = 200 =>
        /\ Len(lookups) = Len(request_body)
        /\ \A t \in Requested :
               Cardinality({i \in DOMAIN lookups : lookups[i] = t}) = 1

C25_Witness ==
    /\ response.status = 200
    /\ lookups = <<"AAPL", "MSFT">>
    /\ ~Fetched("AAPL")
    /\ Fetched("MSFT")

(***************************************************************************)
(* The claim about the market hours (MarketSpec).                          *)
(***************************************************************************)
\* the minute of the week (from Monday 00:00) the Eastern clock shows at
\* the instant checked_at
EasternMinute ==
    (checked_at.weekday * MinutesPerDay + checked_at.hour * 60 + checked_at.minute
     - checked_at.utcoffset + EasternOffset(checked_at.dst)) % MinutesPerWeek

\* C26: is_market_open is true exactly when the Eastern clock shows Monday
\* to Friday, 9:30 or later and before 16:00.
C26_OpenIffTradingHours ==
    market_open # None =>
        (market_open[1] <=>
            /\ EasternMinute \div MinutesPerDay <= 4
            /\ EasternMinute % MinutesPerDay >= 9 * 60 + 30
            /\ EasternMinute % MinutesPerDay < 16 * 60)

\* Friday 21:00 UTC in winter: exactly 16:00 in New York
C26_Witness ==
    /\ checked_at = datetime(4, 21, 0, 0, FALSE)
    /\ market_open = Some(FALSE)
(***************************************************************************)
(* Claims about the state loaded from the store.                           *)
(***************************************************************************)
\* C31 (StoreSpec): whatever the store holds, the state of a tracker after
\* its construction is a mapping from keys to numbers, and no filter_alerts,
\* mark_notified or cleanup made on it raises (the disk working).
C31_LoadedStateIsUsable ==
    /\ call.op = "init" => IsTimestamps(_data)
    /\ call.op \in {"filter_alerts", "mark_notified", "cleanup"} => ~call.raised

(***************************************************************************)
(* Claims about alerts that cannot be built, and the order of the response.*)
(***************************************************************************)
\* the lookup of ticker t succeeded and an alert that is due for it carries a
\* reached or current price that is not positive
Unbuildable(t) ==
    /\ Fetched(t)
    /\ \/ BuyDue(t) /\ (Low(t) <= 0 \/ Last(t) <= 0)
       \/ SellDue(t) /\ (High(t) <= 0 \/ Last(t) <= 0)

Unpersisted(mark) ==
    LET d == load_notified_data(file).data IN
    KeyOf(mark.alert) \notin DOMAIN d \/ d[KeyOf(mark.alert)] # mark.time

\* a filter_alerts on the tracker that made the notification lastMark, for a
\* list holding its alert, while the store does not hold that notification
FilterAfterLostMark ==
    /\ call.op = "filter_alerts"
    /\ lastMark # NoMark
    /\ lastMark.alert \in Elems(call.alerts)
    /\ Unpersisted(lastMark)

\* C33 as stated: after a mark_notified whose save failed the state holds
\* the new timestamp and the store holds what it held before the call; a
\* later filter_alerts on the same tracker drops the alert.
C33_FailedMarkLeavesStore ==
    /\ (call.op = "mark_notified" /\ call.raised) =>
          /\ _data = DictSet(pre.data, KeyOf(call.alert), call.time)
          /\ file = pre.file
    /\ FilterAfterLostMark => lastMark.alert \notin Elems(call.result)

\* C33, amended: after a mark_notified whose save failed the state holds the
\* new timestamp (it is not rolled back); the store holds what it held before
\* the call when open() failed, and a truncated text, a proper prefix of the
\* new state's JSON, when the write failed.  A later filter_alerts on the
\* same tracker, made before the window of that notification has elapsed,
\* drops the alert.
C33_FailedMarkIsNotRolledBack ==
    /\ (call.op = "mark_notified" /\ call.raised) =>
          /\ _data = DictSet(pre.data, KeyOf(call.alert), call.time)
          /\ pre.disk.kind = "open_fails" => file = pre.file
          /\ pre.disk.kind = "write_fails" =>
                /\ file.exists
                /\ Len(file.content) < Len(json_dump(_data))
                /\ file.content = SubSeq(json_dump(_data), 1, Len(file.content))
    /\ (FilterAfterLostMark /\ call.time - lastMark.time < Window) =>
          lastMark.alert \notin Elems(call.result)

\* the save of a notification failed on a store that held an older state; a
\* filter_alerts on the same tracker then drops the alert
C33_Witness ==
    /\ FilterAfterLostMark
    /\ failures > 0
    /\ silence_hours > 0
    /\ call.time = lastMark.time
    /\ call.result = <<>>
    /\ file.exists

(***************************************************************************)
(* Claims about two trackers over one store.                               *)
(***************************************************************************)
\* C34 (SharedSpec): every save replaces the store with the state of the
\* tracker that saves: after the call the store, read back, is that
\* tracker's map, so every entry the store held that this tracker does not
\* hold, such as one written by the other tracker in between, is gone.
C34_SaveOverwritesStore ==
    [][file' # file =>
          /\ file'.exists
          /\ json_loads(file'.content) = [ok |-> TRUE, value |-> _data']
          /\ \A k \in DOMAIN load_notified_data(file).data :
                k \notin DOMAIN _data' =>
                    k \notin DOMAIN load_notified_data(file').data]_vars

\* a lost update: the other tracker holds a notification that is still
\* inside its window, the tracker that has just saved a notification of its
\* own does not, and the store no longer holds it
C34_Witness ==
    /\ call.op = "mark_notified"
    /\ load_notified_data(file).data = _data
    /\ \E k \in DOMAIN peer :
          /\ now - peer[k] < Window
          /\ k \notin DOMAIN _data

(***************************************************************************)
(* Claims about the exit of main() and the loop of call_api.               *)
(***************************************************************************)
\* the last request call_api sent was answered 200
ApiCallSucceeded ==
    /\ ConfigLoaded
    /\ KeyInEnviron
    /\ run.attempts \in 1..MaxAttempts
    /\ network.outcomes[run.attempts] = "200"

\* C35 as stated: main() returns an exit code and lets no exception out; it
\* returns 0 when the configuration was loaded and the API call succeeded,
\* and 1 otherwise.
C35_MainAlwaysReturnsExitCode ==
    run.done =>
        /\ run.escaped = NoException
        /\ run.exit_code \in {0, 1}
        /\ run.exit_code = 0 <=> ApiCallSucceeded

\* C35, amended: main() lets no exception out except the SystemExit of
\* argparse, raised for --help (status 0) and for an unknown argument
\* (status 2) before anything else is done.  Otherwise it returns 0 when the
\* configuration was loaded, the API call succeeded and the body of the
\* response holds the keys main displays, and 1 in every other case, the
\* exception being caught by one of its except clauses.
C35_MainReturnsUnlessArgparseExits ==
    run.done =>
        IF ~ArgsKnown
        THEN /\ run.escaped = "SystemExit"
             /\ run.exit_code = IF argv = <<"--help">> THEN 0 ELSE UsageError
             /\ run.attempts = 0
        ELSE /\ run.escaped = NoException
             /\ run.exit_code \in {0, 1}
             /\ run.exit_code = 0 <=> (ApiCallSucceeded /\ network.body.wellformed)
             /\ run.exit_code = 1 <=> run.exception # NoException
             /\ run.exit_code = 1 => run.stderr = <<ExceptClause(run.exception)>>

\* a run that loaded its configuration and was answered 200 with a body
\* without the keys main reads: KeyError, exit code 1
C35_Witness ==
    /\ run.done
    /\ ApiCallSucceeded
    /\ ~network.body.wellformed
    /\ run.exit_code = 1
    /\ run.exception = "KeyError"
    /\ run.attempts = 2

\* the place of a ticker among the keys of the request body
RequestOrder(t) == CHOOSE i \in DOMAIN request_body : request_body[i].ticker = t

\* the entries of a list of the response follow the order of the request
InRequestOrder(list) ==
    \A i, j \in DOMAIN list :
        i < j => RequestOrder(list[i].ticker) <= RequestOrder(list[j].ticker)

\* C36: in the result of check_alerts the alerts follow the order of the
\* tickers in the request, the two alerts of one ticker are its buy alert
\* and then its sell alert, and the errors follow the order of the request
\* with at most one error for a ticker
C36_ResultsFollowRequestOrder ==
    response.status = 200 =>
        /\ InRequestOrder(response.alerts)
        /\ InRequestOrder(response.errors)
        /\ \A i, j \in DOMAIN response.alerts :
               (i < j /\ response.alerts[i].ticker = response.alerts[j].ticker)
                   => /\ response.alerts[i].type = "buy"
                      /\ response.alerts[j].type = "sell"
        /\ \A i, j \in DOMAIN response.errors :
               i < j => response.errors[i].ticker # response.errors[j].ticker

\* C36 witness: a request of two tickers answered with both alerts of the
\* first ticker followed by an alert of the second
C36_Witness ==
    /\ response.status = 200
    /\ Len(request_body) = 2
    /\ Len(response.alerts) >= 3
    /\ response.alerts[1].ticker = request_body[1].ticker
    /\ response.alerts[1].type = "buy"
    /\ response.alerts[2].ticker = request_body[1].ticker
    /\ response.alerts[2].type = "sell"
    /\ response.alerts[3].ticker = request_body[2].ticker

\* a request of two tickers answered with an error for each
C36_ErrorsOfTwoTickers ==
    /\ response.status = 200
    /\ Len(response.errors) = 2
    /\ response.errors[1].ticker = request_body[1].ticker
    /\ response.errors[2].ticker = request_body[2].ticker

\* main() reached the retry loop of call_api: the command line was parsed,
\* the configuration loaded and API_KEY is set and not empty
LoopEntered == ConfigLoaded /\ KeyInEnviron

\* C37: whatever the attempts meet, the retry loop of call_api is left by a
\* return or a raise inside its body, after one request or two: the code
\* after the loop is never reached
C37_RetryLoopLeavesInsideBody ==
    LoopEntered =>
        LET left == AttemptLoop(network, 0, NoException) IN
        /\ ~left.after_loop
        /\ left.attempts \in 1..MaxAttempts
        /\ run.attempts = left.attempts

\* C37 witness: both attempts timed out, and the second timeout was raised
\* from the except clause inside the loop
C37_Witness ==
    /\ LoopEntered
    /\ network.outcomes[1] = "Timeout"
    /\ network.outcomes[2] = "Timeout"
    /\ run.attempts = MaxAttempts
    /\ run.exception = "Timeout"
    /\ ~AttemptLoop(network, 0, NoException).after_loop

====
